---------------------------- MODULE Spec2Model ----------------------------
(***************************************************************************)
(* Intra-prediction reference kernels and their dispatch record            *)
(* (src/src/ipred.c of dav1d).                                             *)
(*                                                                         *)
(* A kernel invocation is modelled by the stores it performs on the        *)
(* destination memory (a map from sample offsets to the stored sample,     *)
(* offset y * PXSTRIDE(stride) + x being column x of row y of the plane    *)
(* at the dst pointer), by the set of destination offsets it loads, and    *)
(* by the locals it computes before its pixel loop; "ok" tells whether the *)
(* assert()s the invocation evaluates hold.  Strides are in samples        *)
(* (PXSTRIDE(stride)).                                                     *)
(*                                                                         *)
(* The(S) is the element of a singleton set; "The({e(v) : v \in {d}})"     *)
(* evaluates e with the local v bound to the value of d.                   *)
(***************************************************************************)
EXTENDS Integers, Sequences, FiniteSets, TLC

VARIABLES
    pc,         \* control point of the caller
    c,          \* the Dav1dIntraPredDSPContext dispatch record
    BITDEPTH,   \* bit depth the translation unit is compiled for
    HAVE_ASM,   \* HAVE_ASM && ARCH_X86 of the build
    cpu_flags,  \* CPU features the x86 initializer detects
    call,       \* arguments of the kernel invocation
    mem0,       \* the destination memory at entry of the invocation
    mem,        \* memory holding the destination plane(s)
    st,         \* stores of the invocation: offset -> sample stored
    rd,         \* destination offsets loaded by the invocation
    loc         \* locals of the invoked kernel

vars == <<pc, c, BITDEPTH, HAVE_ASM, cpu_flags, call, mem0, mem, st, rd, loc>>

(***************************************************************************)
(* Bounds of the model.                                                    *)
(***************************************************************************)
\* caller data is drawn from the patterns 0..MaxSeed
MaxSeed == 2
\* samples of row padding to the right of the block (stride - width)
MaxPad == 8
\* directional kernels are run on the first MaxAngles angles of AngleList
MaxAngles == 3
\* largest w_pad and h_pad of a cfl_ac call
MaxCflPad == 7
\* DC levels taken from each end of the sample range
MaxDcLevels == 12
\* largest sample value of the small-valued neighbour patterns
MaxSmall == 3

(***************************************************************************)
(* Integer helpers (common/intops.h, common/attributes.h).                 *)
(***************************************************************************)
The(S) == CHOOSE r \in S : TRUE

imin(a, b) == IF a < b THEN a ELSE b
imax(a, b) == IF a > b THEN a ELSE b
iclip(v, lo, hi) == IF v < lo THEN lo ELSE IF v > hi THEN hi ELSE v
iclip_pixel(v, bd) == iclip(v, 0, 2^bd - 1)
abs(v) == IF v < 0 THEN -v ELSE v
apply_sign(v, s) == IF s < 0 THEN -v ELSE v
\* v >> n on a two's complement int (arithmetic shift)
Shr(v, n) == v \div (2^n)
Shl(v, n) == v * (2^n)

\* reduction of a non-negative int to an unsigned (mod 2^32)
U32(v) ==
    IF v \div 65536 < 65536 THEN v
    ELSE (v % 65536) + 65536 * ((v \div 65536) % 65536)

RECURSIVE ctz(_)
ctz(n) == IF n % 2 = 1 THEN 0 ELSE 1 + ctz(n \div 2)

\* f[lo] + ... + f[hi]
RECURSIVE SumIdx(_, _, _)
SumIdx(f, lo, hi) ==
    IF lo > hi THEN 0
    ELSE IF lo = hi THEN f[lo]
    ELSE SumIdx(f, lo, (lo + hi) \div 2) + SumIdx(f, (lo + hi) \div 2 + 1, hi)

\* a pixel is uint8_t when BITDEPTH is 8 and uint16_t otherwise
PixelBits(bd) == IF bd = 8 THEN 8 ELSE 16
\* conversion of an int to the pixel type on a store
ToPixel(v, bd) == v % (2^PixelBits(bd))
PixelMax(bd) == 2^bd - 1

BitDepths == {8, 10}
\* block widths and heights: powers of two in [4, 64]
Sizes == {4, 8, 16, 32, 64}

(***************************************************************************)
(* Caller-supplied data: samples in [0, 2^BITDEPTH - 1] drawn from a       *)
(* family of patterns: all zero, all maximal, and irregular ones.          *)
(***************************************************************************)
Seeds == 0 .. MaxSeed

Sample(seed, i, bd) ==
    CASE seed = 0 -> 0
      [] seed = 1 -> PixelMax(bd)
      [] OTHER -> ((i + 300) * (seed * 97 + 31) + (i + 300) * (i + 300) * 7)
                     % (PixelMax(bd) + 1)

\* the neighbour vector addressed through topleft: topleft[-(w+h) .. w+h]
Neighbours(seed, width, height, bd) ==
    [i \in -(width + height) .. (width + height) |-> Sample(seed, i, bd)]

\* destination memory from offset lo to offset hi (relative to dst)
Plane(seed, lo, hi, bd) ==
    [p \in lo .. hi |-> (Sample(seed, 7, bd) + p) % (PixelMax(bd) + 1)]

\* offsets of the width x height rectangle of the plane at offset dst
Rect(dst, stride, width, height) ==
    {dst + y * stride + x : x \in 0 .. width - 1, y \in 0 .. height - 1}

\* memory after the stores s
Apply(m, s) ==
    The({[p \in DOMAIN m |-> IF p \in d THEN s[p] ELSE m[p]] : d \in {DOMAIN s}})

(***************************************************************************)
(* splat_dc: the DC value replicated into the lanes of a 32 or 64 bit      *)
(* word (dc * 0x0101..01), stored one word at a time.                      *)
(***************************************************************************)
\* digit j of v in the given base; an unsigned has ndig digits
Digit(v, base, j, ndig) == IF j >= ndig THEN 0 ELSE (v \div (base^j)) % base

\* column sum k (with carry) of the schoolbook product dc * 0x01..01
RECURSIVE LaneAcc(_, _, _, _)
LaneAcc(dc, base, k, ndig) ==
    SumIdx([j \in 0 .. k |-> Digit(dc, base, j, ndig)], 0, k)
    + (IF k = 0 THEN 0 ELSE LaneAcc(dc, base, k - 1, ndig) \div base)

\* lane k of the replicated word dcN
Lane(dc, base, k, ndig) == LaneAcc(dc, base, k, ndig) % base

\* variant: the 64 bit store also for blocks 4 wide
SplatStep_Wide(width, bd) == IF bd = 8 THEN 8 ELSE 4

\* samples per store: sizeof(dcN), or sizeof(dcN) >> 1 for 16 bit pixels
SplatStep(width, bd) == IF bd = 8 THEN (IF width > 4 THEN 8 ELSE 4) ELSE 4

\* the offsets splat_dc stores to
SplatOffsets(stride, width, height, bd) ==
    {y * stride + x + k : y \in 0 .. height - 1,
                          x \in {i \in 0 .. width - 1 : i % SplatStep(width, bd) = 0},
                          k \in 0 .. SplatStep(width, bd) - 1}

splat_dc(stride, width, height, dc, bd) ==
    The({[st |-> [p \in SplatOffsets(stride, width, height, bd) |->
                     dcN[(p % stride) % SplatStep(width, bd)]],
          ld |-> {},
          ok |-> dc <= (2^bd) - 1,
          loc |-> [dc |-> dc]]
         : dcN \in {[k \in 0 .. SplatStep(width, bd) - 1 |->
                       Lane(dc, 2^PixelBits(bd), k, IF bd = 8 THEN 4 ELSE 2)]}})

ipred_dc_top_c(stride, topleft, width, height, a, bd) ==
    The({splat_dc(stride, width, height, Shr(dc, ctz(width)), bd)
         : dc \in {(width \div 2)
                   + SumIdx([i \in 0 .. width - 1 |-> topleft[1 + i]],
                            0, width - 1)}})

ipred_dc_left_c(stride, topleft, width, height, a, bd) ==
    The({splat_dc(stride, width, height, Shr(dc, ctz(height)), bd)
         : dc \in {(height \div 2)
                   + SumIdx([i \in 0 .. height - 1 |-> topleft[-(1 + i)]],
                            0, height - 1)}})

\* variant: the multipliers for 1/3 rounded down (0x5555, 0xAAAA)
MULTIPLIER_1x2_Truncated(bd) == IF bd = 8 THEN 21845 ELSE 43690

MULTIPLIER_1x2(bd) == IF bd = 8 THEN 21846 ELSE 43691   \* 0x5556, 0xAAAB
MULTIPLIER_1x4(bd) == IF bd = 8 THEN 13108 ELSE 26215   \* 0x3334, 0x6667
BASE_SHIFT(bd) == IF bd = 8 THEN 16 ELSE 17

\* the sum T of the width top and height left neighbours
DcSum(topleft, width, height) ==
    SumIdx([i \in 0 .. width - 1 |-> topleft[i + 1]], 0, width - 1)
    + SumIdx([i \in 0 .. height - 1 |-> topleft[-(i + 1)]], 0, height - 1)

\* dc after "dc >>= ctz(width + height)"
DcShifted(topleft, width, height) ==
    Shr(((width + height) \div 2) + DcSum(topleft, width, height),
        ctz(width + height))

\* variant: the two multipliers exchanged
DcMultiplier_Swapped(width, height, bd) ==
    IF width > height * 2 \/ height > width * 2 THEN MULTIPLIER_1x2(bd)
                                                  ELSE MULTIPLIER_1x4(bd)

\* the multiplier ipred_dc_c selects
DcMultiplier(width, height, bd) ==
    IF width > height * 2 \/ height > width * 2 THEN MULTIPLIER_1x4(bd)
                                                  ELSE MULTIPLIER_1x2(bd)

\* the product "dc *= MULTIPLIER" before it is reduced to an unsigned
DcProduct(topleft, width, height, bd) ==
    DcShifted(topleft, width, height) * DcMultiplier(width, height, bd)

\* the value ipred_dc_c passes to splat_dc
DcValue(topleft, width, height, bd) ==
    IF width # height
    THEN Shr(U32(DcProduct(topleft, width, height, bd)), BASE_SHIFT(bd))
    ELSE DcShifted(topleft, width, height)

ipred_dc_c(stride, topleft, width, height, a, bd) ==
    The({splat_dc(stride, width, height, dc, bd)
         : dc \in {DcValue(topleft, width, height, bd)}})

ipred_dc_128_c(stride, topleft, width, height, a, bd) ==
    splat_dc(stride, width, height, 2^(bd - 1), bd)

\* pixel_copy(dst, topleft + 1, width) in every row
ipred_v_c(stride, topleft, width, height, a, bd) ==
    [st |-> [p \in {y * stride + i : y \in 0 .. height - 1, i \in 0 .. width - 1}
                |-> topleft[1 + (p % stride)]],
     ld |-> {},
     ok |-> TRUE,
     loc |-> <<>>]

\* pixel_set(dst, topleft[-(1 + y)], width) in every row
ipred_h_c(stride, topleft, width, height, a, bd) ==
    [st |-> [p \in {y * stride + i : y \in 0 .. height - 1, i \in 0 .. width - 1}
                |-> topleft[-(1 + (p \div stride))]],
     ld |-> {},
     ok |-> TRUE,
     loc |-> <<>>]

\* the sample ipred_paeth_c selects for (left, top, topleft)
\* variant: left has to be strictly closer than topleft
PaethPick_Strict(left, top, topleft) ==
    The({IF d.l <= d.t /\ d.l < d.tl THEN left
         ELSE IF d.t <= d.tl THEN top ELSE topleft
         : d \in {[l |-> abs(left - (left + top - topleft)),
                   t |-> abs(top - (left + top - topleft)),
                   tl |-> abs(topleft - (left + top - topleft))]}})

PaethPick(left, top, topleft) ==
    The({IF d.l <= d.t /\ d.l <= d.tl THEN left
         ELSE IF d.t <= d.tl THEN top ELSE topleft
         : d \in {[l |-> abs(left - (left + top - topleft)),
                   t |-> abs(top - (left + top - topleft)),
                   tl |-> abs(topleft - (left + top - topleft))]}})

ipred_paeth_c(stride, tl_ptr, width, height, a, bd) ==
    [st |-> [p \in {y * stride + x : y \in 0 .. height - 1, x \in 0 .. width - 1}
                |-> ToPixel(PaethPick(tl_ptr[-((p \div stride) + 1)],
                                      tl_ptr[1 + (p % stride)],
                                      tl_ptr[0]), bd)],
     ld |-> {},
     ok |-> TRUE,
     loc |-> <<>>]

(***************************************************************************)
(* dav1d_sm_weights (src/tables.h) is an array of uint8_t; its contents    *)
(* are not fixed here: entry i of the table is drawn from [0, 255].        *)
(***************************************************************************)
dav1d_sm_weights(tseed, i) == Sample(tseed, i, 8)

SmoothPred(topleft, width, height, tseed, x, y) ==
    dav1d_sm_weights(tseed, height + y) * topleft[1 + x]
    + (256 - dav1d_sm_weights(tseed, height + y)) * topleft[-height]
    + dav1d_sm_weights(tseed, width + x) * topleft[-(1 + y)]
    + (256 - dav1d_sm_weights(tseed, width + x)) * topleft[width]

ipred_smooth_c(stride, topleft, width, height, a, bd, tseed) ==
    [st |-> [p \in {y * stride + x : y \in 0 .. height - 1, x \in 0 .. width - 1}
                |-> ToPixel(Shr(SmoothPred(topleft, width, height, tseed,
                                           p % stride, p \div stride) + 256, 9),
                            bd)],
     ld |-> {},
     ok |-> TRUE,
     loc |-> <<>>]

SmoothVPred(topleft, width, height, tseed, x, y) ==
    dav1d_sm_weights(tseed, height + y) * topleft[1 + x]
    + (256 - dav1d_sm_weights(tseed, height + y)) * topleft[-height]

ipred_smooth_v_c(stride, topleft, width, height, a, bd, tseed) ==
    [st |-> [p \in {y * stride + x : y \in 0 .. height - 1, x \in 0 .. width - 1}
                |-> ToPixel(Shr(SmoothVPred(topleft, width, height, tseed,
                                            p % stride, p \div stride) + 128, 8),
                            bd)],
     ld |-> {},
     ok |-> TRUE,
     loc |-> <<>>]

\* variant: right is the sample after topleft[width]
SmoothHPred_Right(topleft, width, height, tseed, x, y) ==
    dav1d_sm_weights(tseed, width + x) * topleft[-(y + 1)]
    + (256 - dav1d_sm_weights(tseed, width + x)) * topleft[width + 1]

SmoothHPred(topleft, width, height, tseed, x, y) ==
    dav1d_sm_weights(tseed, width + x) * topleft[-(y + 1)]
    + (256 - dav1d_sm_weights(tseed, width + x)) * topleft[width]

ipred_smooth_h_c(stride, topleft, width, height, a, bd, tseed) ==
    [st |-> [p \in {y * stride + x : y \in 0 .. height - 1, x \in 0 .. width - 1}
                |-> ToPixel(Shr(SmoothHPred(topleft, width, height, tseed,
                                            p % stride, p \div stride) + 128, 8),
                            bd)],
     ld |-> {},
     ok |-> TRUE,
     loc |-> <<>>]

(***************************************************************************)
(* Edge preparation of the directional kernels.  The input "in" of         *)
(* filter_edge and upsample_edge is a pointer into the caller's neighbour  *)
(* vector: in[k] is src[off + k].                                          *)
(***************************************************************************)
get_filter_strength(blk_wh, d, type) ==
    IF type = 0
    THEN IF blk_wh <= 8 THEN (IF d >= 56 THEN 1 ELSE 0)
         ELSE IF blk_wh <= 12 THEN (IF d >= 40 THEN 1 ELSE 0)
         ELSE IF blk_wh <= 16 THEN (IF d >= 40 THEN 1 ELSE 0)
         ELSE IF blk_wh <= 24
              THEN (IF d >= 32 THEN 3 ELSE IF d >= 16 THEN 2
                    ELSE IF d >= 8 THEN 1 ELSE 0)
         ELSE IF blk_wh <= 32
              THEN (IF d >= 32 THEN 3 ELSE IF d >= 4 THEN 2
                    ELSE IF d >= 1 THEN 1 ELSE 0)
         ELSE (IF d >= 1 THEN 3 ELSE 0)
    ELSE IF blk_wh <= 8
         THEN (IF d >= 64 THEN 2 ELSE IF d >= 40 THEN 1 ELSE 0)
         ELSE IF blk_wh <= 16
              THEN (IF d >= 48 THEN 2 ELSE IF d >= 20 THEN 1 ELSE 0)
         ELSE IF blk_wh <= 24 THEN (IF d >= 4 THEN 3 ELSE 0)
         ELSE (IF d >= 1 THEN 3 ELSE 0)

FilterEdgeKernel ==
    << <<0, 4, 8, 4, 0>>, <<0, 5, 6, 5, 0>>, <<2, 4, 4, 4, 2>> >>

\* the entries out[0 .. sz - 1] filter_edge writes
filter_edge(sz, src, off, from, to, strength, bd) ==
    [i \in 0 .. sz - 1 |->
        ToPixel(Shr(SumIdx([j \in 0 .. 4 |->
                              src[off + iclip(i - 2 + j, from, to - 1)]
                              * FilterEdgeKernel[strength][j + 1]], 0, 4) + 8,
                    4), bd)]

get_upsample(blk_wh, d, type) ==
    IF d >= 40 THEN 0
    ELSE IF type # 0 THEN (IF blk_wh <= 8 THEN 1 ELSE 0)
                     ELSE (IF blk_wh <= 16 THEN 1 ELSE 0)

UpsampleKernel == <<-1, 9, 9, -1>>

\* the entries out[0 .. 2 * hsz - 2] upsample_edge writes
upsample_edge(hsz, src, off, from, to, bd) ==
    [o \in 0 .. 2 * (hsz - 1) |->
        IF o % 2 = 0
        THEN src[off + iclip(o \div 2, from, to - 1)]
        ELSE iclip_pixel(
               Shr(SumIdx([j \in 0 .. 3 |->
                             src[off + iclip((o \div 2) + j - 1, from, to - 1)]
                             * UpsampleKernel[j + 1]], 0, 3) + 8, 4), bd)]

(***************************************************************************)
(* dav1d_dr_intra_derivative (src/tables.h): the Q6 step of each angle     *)
(* the AV1 directional modes use (Dr_Intra_Derivative of the AV1           *)
(* specification).                                                         *)
(***************************************************************************)
DrAngles ==
    {3, 6, 9, 14, 17, 20, 23, 26, 29, 32, 36, 39, 42, 45, 48, 51, 54, 58, 61,
     64, 67, 70, 73, 76, 81, 84, 87}

dav1d_dr_intra_derivative ==
    [a \in DrAngles |->
        CASE a = 3 -> 1023 [] a = 6 -> 547 [] a = 9 -> 372 [] a = 14 -> 273
          [] a = 17 -> 215 [] a = 20 -> 178 [] a = 23 -> 151 [] a = 26 -> 132
          [] a = 29 -> 116 [] a = 32 -> 102 [] a = 36 -> 90 [] a = 39 -> 80
          [] a = 42 -> 71 [] a = 45 -> 64 [] a = 48 -> 57 [] a = 51 -> 51
          [] a = 54 -> 45 [] a = 58 -> 40 [] a = 61 -> 35 [] a = 64 -> 31
          [] a = 67 -> 27 [] a = 70 -> 23 [] a = 73 -> 19 [] a = 76 -> 15
          [] a = 81 -> 11 [] a = 84 -> 7 [] a = 87 -> 3]

\* the angles of the derivative table, in the order the model draws them
AngleList ==
    <<87, 45, 3, 36, 58, 76, 81, 84, 54, 6, 9, 14, 17, 20, 23, 26, 29, 32, 39,
      42, 48, 51, 61, 64, 67, 70, 73>>

Angles == {AngleList[i] : i \in 1 .. imin(MaxAngles, Len(AngleList))}

(***************************************************************************)
(* ipred_z1_c.  Z1Edge is the part before the pixel loop; its result       *)
(* holds the effective top edge as a function of the index the loop uses   *)
(* (the written entries of top_out, or the caller's vector from            *)
(* topleft_in[1] on).                                                      *)
(***************************************************************************)
\* variant: the edge is taken to hold width + height samples
Z1Edge_WholeEdge(topleft_in, width, height, angle_in, bd) ==
    LET is_sm == Shr(angle_in, 9)
        angle == angle_in % 512
        upsample_above == get_upsample(width + height, 90 - angle, is_sm)
        filter_strength ==
            get_filter_strength(width + height, 90 - angle, is_sm)
    IN [angle |-> angle,
        dx |-> dav1d_dr_intra_derivative[angle],
        upsample |-> upsample_above,
        filter_strength |-> IF upsample_above # 0 THEN 0 ELSE filter_strength,
        top |-> IF upsample_above # 0
                THEN upsample_edge(width + height, topleft_in, 1, -1,
                                   width + height, bd)
                ELSE IF filter_strength # 0
                THEN filter_edge(width + height, topleft_in, 1, -1,
                                 width + height, filter_strength,
                                 bd)
                ELSE [i \in -(width + height) - 1 .. (width + height) - 1 |->
                        topleft_in[1 + i]],
        max_base |-> IF upsample_above # 0 THEN 2 * (width + height) - 2
                     ELSE IF filter_strength # 0 THEN width + height - 1
                     ELSE width + imin(width, height) - 1]

Z1Edge(topleft_in, width, height, angle_in, bd) ==
    LET is_sm == Shr(angle_in, 9)
        angle == angle_in % 512
        upsample_above == get_upsample(width + height, 90 - angle, is_sm)
        filter_strength ==
            get_filter_strength(width + height, 90 - angle, is_sm)
    IN [angle |-> angle,
        dx |-> dav1d_dr_intra_derivative[angle],
        upsample |-> upsample_above,
        filter_strength |-> IF upsample_above # 0 THEN 0 ELSE filter_strength,
        top |-> IF upsample_above # 0
                THEN upsample_edge(width + height, topleft_in, 1, -1,
                                   width + imin(width, height), bd)
                ELSE IF filter_strength # 0
                THEN filter_edge(width + height, topleft_in, 1, -1,
                                 width + imin(width, height), filter_strength,
                                 bd)
                ELSE [i \in -(width + height) - 1 .. (width + height) - 1 |->
                        topleft_in[1 + i]],
        max_base |-> IF upsample_above # 0 THEN 2 * (width + height) - 2
                     ELSE IF filter_strength # 0 THEN width + height - 1
                     ELSE width + imin(width, height) - 1]

\* base of column x in row y: (xpos >> frac_bits) + x * base_inc
Z1Base(L, x, y) == Shr((y + 1) * L.dx, 6 - L.upsample) + x * (2^L.upsample)
Z1Frac(L, y) == Shr(Shl((y + 1) * L.dx, L.upsample) % 64, 1)

\* the interpolated sample for (base, frac) on the edge e
ZInterp(e, i0, i1, frac, bd) ==
    iclip_pixel(Shr(e[i0] * (32 - frac) + e[i1] * frac + 16, 5), bd)

\* the column at which the loop of row y breaks (width when it does not):
\* base grows with x, so the columns below the break are those with
\* base < max_base_x
Z1Break(L, width, y) ==
    Cardinality({x \in 0 .. width - 1 : Z1Base(L, x, y) < L.max_base})

\* offsets stored to in row y: one per column before the break, then
\* pixel_set(&dst[x], top[max_base_x], width - x)
Z1RowOffsets(stride, width, y, xb) ==
    {y * stride + x : x \in 0 .. xb - 1}
    \cup (IF xb < width THEN {y * stride + xb + k : k \in 0 .. (width - xb) - 1}
                        ELSE {})

Z1Pixel(L, x, y, bd) ==
    IF Z1Base(L, x, y) < L.max_base
    THEN ZInterp(L.top, Z1Base(L, x, y), Z1Base(L, x, y) + 1, Z1Frac(L, y), bd)
    ELSE L.top[L.max_base]

Z1Loop(stride, width, height, L, bd) ==
    [st |-> [p \in UNION {Z1RowOffsets(stride, width, y, Z1Break(L, width, y))
                          : y \in 0 .. height - 1}
               |-> Z1Pixel(L, p % stride, p \div stride, bd)],
     ld |-> {},
     ok |-> L.angle < 90,
     loc |-> L]

ipred_z1_c(stride, topleft_in, width, height, angle, bd) ==
    The({Z1Loop(stride, width, height, L, bd)
         : L \in {Z1Edge(topleft_in, width, height, angle, bd)}})

(***************************************************************************)
(* ipred_z3_c.  The effective left edge is held as a function of the       *)
(* index k of left[k] (k <= 0 in the loop).                                *)
(***************************************************************************)
Z3Edge(topleft_in, width, height, angle_in, bd) ==
    LET is_sm == Shr(angle_in, 9)
        angle == angle_in % 512
        upsample_left == get_upsample(width + height, angle - 180, is_sm)
        filter_strength ==
            get_filter_strength(width + height, angle - 180, is_sm)
    IN [angle |-> angle,
        dy |-> dav1d_dr_intra_derivative[270 - angle],
        upsample |-> upsample_left,
        filter_strength |-> IF upsample_left # 0 THEN 0 ELSE filter_strength,
        left |-> IF upsample_left # 0
                 THEN The({[k \in -(2 * (width + height) - 2) .. 0 |->
                              left_out[2 * (width + height) - 2 + k]]
                           : left_out \in
                               {upsample_edge(width + height, topleft_in,
                                              -(width + height),
                                              imax(width - height, 0),
                                              width + height + 1, bd)}})
                 ELSE IF filter_strength # 0
                 THEN The({[k \in -(width + height - 1) .. 0 |->
                              left_out[width + height - 1 + k]]
                           : left_out \in
                               {filter_edge(width + height, topleft_in,
                                            -(width + height),
                                            imax(width - height, 0),
                                            width + height + 1,
                                            filter_strength, bd)}})
                 ELSE [k \in -(width + height) + 1 .. (width + height) + 1 |->
                         topleft_in[k - 1]],
        max_base |-> IF upsample_left # 0 THEN 2 * (width + height) - 2
                     ELSE IF filter_strength # 0 THEN width + height - 1
                     ELSE height + imin(width, height) - 1]

Z3Base(L, x, y) == Shr((x + 1) * L.dy, 6 - L.upsample) + y * (2^L.upsample)
\* variant: frac is taken from ypos as it is
Z3Frac_NoUpsample(L, x) == Shr(((x + 1) * L.dy) % 64, 1)

Z3Frac(L, x) == Shr(Shl((x + 1) * L.dy, L.upsample) % 64, 1)

\* the row at which the loop of column x breaks (height when it does not)
Z3Break(L, height, x) ==
    Cardinality({y \in 0 .. height - 1 : Z3Base(L, x, y) < L.max_base})

\* offsets stored to in column x: one per row before the break, then
\* do { dst[y * stride + x] = left[-max_base_y]; } while (++y < height)
Z3ColOffsets(stride, height, x, yb) ==
    {y * stride + x : y \in 0 .. yb - 1}
    \cup (IF yb < height THEN {y * stride + x : y \in yb .. height - 1} ELSE {})

Z3Pixel(L, x, y, bd) ==
    IF Z3Base(L, x, y) < L.max_base
    THEN ZInterp(L.left, -Z3Base(L, x, y), -(Z3Base(L, x, y) + 1),
                 Z3Frac(L, x), bd)
    ELSE L.left[-L.max_base]

Z3Loop(stride, width, height, L, bd) ==
    [st |-> [p \in UNION {Z3ColOffsets(stride, height, x, Z3Break(L, height, x))
                          : x \in 0 .. width - 1}
               |-> Z3Pixel(L, p % stride, p \div stride, bd)],
     ld |-> {},
     ok |-> L.angle > 180,
     loc |-> L]

ipred_z3_c(stride, topleft_in, width, height, angle, bd) ==
    The({Z3Loop(stride, width, height, L, bd)
         : L \in {Z3Edge(topleft_in, width, height, angle, bd)}})

(***************************************************************************)
(* ipred_z2_c.  edge is held as a function of the index relative to the    *)
(* local topleft pointer (&edge[height * 2]); its domain is the set of     *)
(* entries written before the pixel loop.                                  *)
(***************************************************************************)
\* the entries of topleft[] written for the top edge
Z2Above(topleft_in, width, height, angle, is_sm, bd) ==
    IF get_upsample(width + height, angle - 90, is_sm) # 0
    THEN upsample_edge(width + 1, topleft_in, 0, 0, width + 1, bd)
    ELSE IF get_filter_strength(width + height, angle - 90, is_sm) # 0
    THEN The({[i \in 1 .. width |-> out[i - 1]]
              : out \in {filter_edge(width, topleft_in, 1, -1, width,
                                     get_filter_strength(width + height,
                                                         angle - 90, is_sm),
                                     bd)}})
    ELSE [i \in 1 .. width |-> topleft_in[i]]

\* the entries of topleft[] written for the left edge
Z2Left(topleft_in, width, height, angle, is_sm, bd) ==
    IF get_upsample(width + height, 180 - angle, is_sm) # 0
    THEN The({[i \in -(2 * height) .. 0 |-> out[i + 2 * height]]
              : out \in {upsample_edge(height + 1, topleft_in, -height, 0,
                                       height + 1, bd)}})
    ELSE IF get_filter_strength(width + height, 180 - angle, is_sm) # 0
    THEN The({[i \in -height .. -1 |-> out[i + height]]
              : out \in {filter_edge(height, topleft_in, -height, 0,
                                     height + 1,
                                     get_filter_strength(width + height,
                                                         180 - angle, is_sm),
                                     bd)}})
    ELSE [i \in -height .. -1 |-> topleft_in[i]]

Z2Edge(topleft_in, width, height, angle_in, bd) ==
    LET is_sm == Shr(angle_in, 9)
        angle == angle_in % 512
    IN [angle |-> angle,
        dy |-> dav1d_dr_intra_derivative[angle - 90],
        dx |-> dav1d_dr_intra_derivative[180 - angle],
        upsample_left |-> get_upsample(width + height, 180 - angle, is_sm),
        upsample_above |-> get_upsample(width + height, angle - 90, is_sm),
        edge |-> The({[i \in (DOMAIN e.l) \cup (DOMAIN e.a) \cup {0} |->
                         IF i = 0 THEN topleft_in[0]
                         ELSE IF i < 0 THEN e.l[i] ELSE e.a[i]]
                      : e \in {[a |-> Z2Above(topleft_in, width, height, angle,
                                              is_sm, bd),
                                l |-> Z2Left(topleft_in, width, height, angle,
                                             is_sm, bd)]}})]

Z2BaseX(L, x, y) ==
    Shr(-((y + 1) * L.dx), 6 - L.upsample_above) + x * (2^L.upsample_above)
Z2FracX(L, y) == Shr((-((y + 1) * L.dx) * (2^L.upsample_above)) % 64, 1)
Z2YPos(L, x, y) == Shl(y, 6) - (x + 1) * L.dy
Z2BaseY(L, x, y) == Shr(Z2YPos(L, x, y), 6 - L.upsample_left)
Z2FracY(L, x, y) == Shr((Z2YPos(L, x, y) * (2^L.upsample_left)) % 64, 1)

\* top = &topleft[1 << upsample_above], left = &topleft[-(1 << upsample_left)]
Z2Pixel(L, x, y, bd) ==
    IF Z2BaseX(L, x, y) >= -(2^L.upsample_above)
    THEN ZInterp(L.edge, 2^L.upsample_above + Z2BaseX(L, x, y),
                 2^L.upsample_above + Z2BaseX(L, x, y) + 1, Z2FracX(L, y), bd)
    ELSE ZInterp(L.edge, -(2^L.upsample_left) - Z2BaseY(L, x, y),
                 -(2^L.upsample_left) - (Z2BaseY(L, x, y) + 1),
                 Z2FracY(L, x, y), bd)

Z2Loop(stride, width, height, L, bd) ==
    [st |-> [p \in {y * stride + x : y \in 0 .. height - 1, x \in 0 .. width - 1}
               |-> Z2Pixel(L, p % stride, p \div stride, bd)],
     ld |-> {},
     ok |-> /\ L.angle > 90 /\ L.angle < 180
            /\ \A y \in 0 .. height - 1, x \in 0 .. width - 1 :
                  Z2BaseX(L, x, y) < -(2^L.upsample_above)
                  => Z2BaseY(L, x, y) >= -(2^L.upsample_left),
     loc |-> L]

ipred_z2_c(stride, topleft_in, width, height, angle, bd) ==
    The({Z2Loop(stride, width, height, L, bd)
         : L \in {Z2Edge(topleft_in, width, height, angle, bd)}})

(***************************************************************************)
(* ipred_filter_c.  The kernel walks the block in 4x2 patches, row band by *)
(* row band; the seven context samples of a patch are loaded through the   *)
(* pointers topleft, top and left, which point into the caller's vector    *)
(* for the first band / first patch of a band and into dst otherwise.      *)
(* A pointer is the pair of the buffer it points into and the index.       *)
(***************************************************************************)
\* dav1d_filter_intra_taps (src/tables.h) is an array of int8_t; entry
\* [filt_idx][k][j] is drawn from [-128, 127]
dav1d_filter_intra_taps(tseed, filt_idx, k, j) ==
    Sample(tseed, filt_idx * 64 + k * 8 + j, 8) - 128

\* variant: after a band, top is set to the first row of the next band
FilterTop_Ahead(stride, x, y) ==
    IF y = 0 THEN [buf |-> "topleft_in", at |-> 1 + x]
             ELSE [buf |-> "dst", at |-> y * stride + x]

\* top at the patch at column x of the band starting at row y
FilterTop(stride, x, y) ==
    IF y = 0 THEN [buf |-> "topleft_in", at |-> 1 + x]
             ELSE [buf |-> "dst", at |-> (y - 1) * stride + x]

FilterTopleft(stride, x, y) ==
    IF x = 0 THEN [buf |-> "topleft_in", at |-> -y]
             ELSE [buf |-> FilterTop(stride, x, y).buf,
                   at |-> FilterTop(stride, x, y).at - 1]

\* variant: left points into dst also for the first patch of a band
FilterLeft_Dst(stride, x, y, i) ==
    [buf |-> "dst", at |-> y * stride + (x - 4) + 4 - 1 + i * stride]

\* &left[i * left_stride]
FilterLeft(stride, x, y, i) ==
    IF x = 0 THEN [buf |-> "topleft_in", at |-> (-y - 1) + i * (-1)]
             ELSE [buf |-> "dst", at |-> y * stride + (x - 4) + 4 - 1 + i * stride]

\* the pointers p0 .. p6 are loaded through
FilterPtrs(stride, x, y) ==
    <<FilterTopleft(stride, x, y),
      [FilterTop(stride, x, y) EXCEPT !.at = @ + 0],
      [FilterTop(stride, x, y) EXCEPT !.at = @ + 1],
      [FilterTop(stride, x, y) EXCEPT !.at = @ + 2],
      [FilterTop(stride, x, y) EXCEPT !.at = @ + 3],
      FilterLeft(stride, x, y, 0),
      FilterLeft(stride, x, y, 1)>>

Deref(m, topleft_in, ptr) ==
    IF ptr.buf = "topleft_in" THEN topleft_in[ptr.at] ELSE m[ptr.at]

\* the eight stores of the patch at (x, y), given its context p
FilterPatch(stride, x, y, filter, p, bd) ==
    [o \in {(y + yy) * stride + x + xx : yy \in 0 .. 1, xx \in 0 .. 3} |->
        iclip_pixel(
          Shr(SumIdx([j \in 0 .. 6 |->
                        filter[((o \div stride) - y) * 4 + ((o % stride) - x)][j]
                        * p[j + 1]], 0, 6) + 8, 4), bd)]

\* the context p0 .. p6 of the patch at (x, y), loaded from memory m
FilterContext(m, topleft_in, stride, x, y) ==
    The({[j \in 1 .. 7 |-> Deref(m, topleft_in, ptrs[j])]
         : ptrs \in {FilterPtrs(stride, x, y)}})

\* memory after the inner loop (over x) of the band at row y, from the
\* patch at column x on
RECURSIVE FilterBand(_, _, _, _, _, _, _, _)
FilterBand(m, x, y, stride, topleft_in, width, filter, bd) ==
    IF x >= width THEN m
    ELSE The({FilterBand(m2, x + 4, y, stride, topleft_in, width, filter, bd)
              : m2 \in {The({FilterPatch(stride, x, y, filter, p, bd)
                             : p \in {FilterContext(m, topleft_in, stride,
                                                    x, y)}})
                        @@ m}})

\* memory after the outer loop (over y), from the band at row y on
RECURSIVE FilterRun(_, _, _, _, _, _, _, _)
FilterRun(m, y, stride, topleft_in, width, height, filter, bd) ==
    IF y >= height THEN m
    ELSE The({FilterRun(m2, y + 2, stride, topleft_in, width, height,
                        filter, bd)
              : m2 \in {FilterBand(m, 0, y, stride, topleft_in, width,
                                   filter, bd)}})

\* the destination offsets loaded by the patch loop
FilterLoads(stride, width, height) ==
    {ptr.at : ptr \in {q \in UNION {{FilterPtrs(stride, x, y)[j] : j \in 1 .. 7}
                                    : x \in {i \in 0 .. width - 1 : i % 4 = 0},
                                      y \in {i \in 0 .. height - 1 : i % 2 = 0}}
                       : q.buf = "dst"}}

\* filter = dav1d_filter_intra_taps[filt_idx]
ipred_filter_c(m, stride, topleft_in, width, height, filt_idx_in, bd, tseed) ==
    The({[st |-> [p \in {(y + yy) * stride + x + xx
                         : y \in {i \in 0 .. height - 1 : i % 2 = 0},
                           x \in {i \in 0 .. width - 1 : i % 4 = 0},
                           yy \in 0 .. 1, xx \in 0 .. 3} |-> mf[p]],
          ld |-> FilterLoads(stride, width, height),
          ok |-> filt_idx_in % 512 < 5,
          loc |-> [filt_idx |-> filt_idx_in % 512]]
         : mf \in {The({FilterRun(m, 0, stride, topleft_in, width, height,
                                  filter, bd)
                        : filter \in
                            {[k \in 0 .. 7 |-> [j \in 0 .. 7 |->
                                dav1d_filter_intra_taps(tseed,
                                    filt_idx_in % 512, k, j)]]}})}})

(***************************************************************************)
(* cfl_ac_c.  ypx is the luma plane (offset 0 is the sample at ypx), the   *)
(* result holds the ac array after each of the two passes.                 *)
(***************************************************************************)
\* conversion of an int to int16_t
Int16(v) == ((v + 32768) % 65536) - 32768

\* ac_sum of chroma position (x, y)
CflAcSum(ypx, stride, x, y, ss_hor, ss_ver) ==
    ypx[y * Shl(stride, ss_ver) + Shl(x, ss_hor)]
    + (IF ss_hor # 0 THEN ypx[y * Shl(stride, ss_ver) + x * 2 + 1] ELSE 0)
    + (IF ss_ver # 0
       THEN ypx[y * Shl(stride, ss_ver) + Shl(x, ss_hor) + stride]
            + (IF ss_hor # 0
               THEN ypx[y * Shl(stride, ss_ver) + x * 2 + 1 + stride] ELSE 0)
       ELSE 0)

\* the value assigned to ac[x] in the first loop, before its conversion
CflAcScaled(ypx, stride, x, y, ss_hor, ss_ver) ==
    Shl(CflAcSum(ypx, stride, x, y, ss_hor, ss_ver),
        1 + (IF ss_ver = 0 THEN 1 ELSE 0) + (IF ss_hor = 0 THEN 1 ELSE 0))

\* ac after the fill loops: computed positions, then each row extended by
\* ac[x] = ac[x - 1] and the rows below copied from the row above
CflAcFill(ypx, stride, w_pad, h_pad, width, height, ss_hor, ss_ver) ==
    [i \in 0 .. width * height - 1 |->
        Int16(CflAcScaled(ypx, stride,
                          imin(i % width, width - 4 * w_pad - 1),
                          imin(i \div width, height - 4 * h_pad - 1),
                          ss_hor, ss_ver))]

\* variant: the rounding term (1 << log2sz) >> 1 is left out of sum
cfl_ac_c_NoRound(ypx, stride, w_pad, h_pad, width, height, ss_hor, ss_ver, log2sz) ==
    The({The({[ac |-> [i \in 0 .. width * height - 1 |-> Int16(ac1[i] - sum)],
               filled |-> ac1,
               sum |-> sum,
               scaled |-> {CflAcScaled(ypx, stride, x, y, ss_hor, ss_ver)
                           : x \in 0 .. width - 4 * w_pad - 1,
                             y \in 0 .. height - 4 * h_pad - 1},
               ok |-> /\ w_pad >= 0 /\ w_pad * 4 < width
                      /\ h_pad >= 0 /\ h_pad * 4 < height]
              : sum \in {Shr(SumIdx(ac1, 0, width * height - 1), log2sz)}})
         : ac1 \in {CflAcFill(ypx, stride, w_pad, h_pad, width, height,
                              ss_hor, ss_ver)}})

\* ac: the array on return; filled: the array after the fill loops; sum: the
\* average subtracted; scaled: the values assigned in the first loop before
\* their conversion to int16_t; ok: the assertions hold
cfl_ac_c(ypx, stride, w_pad, h_pad, width, height, ss_hor, ss_ver, log2sz) ==
    The({The({[ac |-> [i \in 0 .. width * height - 1 |-> Int16(ac1[i] - sum)],
               filled |-> ac1,
               sum |-> sum,
               scaled |-> {CflAcScaled(ypx, stride, x, y, ss_hor, ss_ver)
                           : x \in 0 .. width - 4 * w_pad - 1,
                             y \in 0 .. height - 4 * h_pad - 1},
               ok |-> /\ w_pad >= 0 /\ w_pad * 4 < width
                      /\ h_pad >= 0 /\ h_pad * 4 < height]
              : sum \in {Shr(Shr(Shl(1, log2sz), 1)
                             + SumIdx(ac1, 0, width * height - 1), log2sz)}})
         : ac1 \in {CflAcFill(ypx, stride, w_pad, h_pad, width, height,
                              ss_hor, ss_ver)}})

(***************************************************************************)
(* cfl_pred_1_c, cfl_pred_c and pal_pred_c.  dst, dstU and dstV are        *)
(* offsets into the memory m.                                              *)
(***************************************************************************)
CflPixel(dc, alpha, acv, bd) ==
    iclip_pixel(dc + apply_sign(Shr(abs(alpha * acv) + 32, 6), alpha * acv), bd)

\* variant: dc is loaded again at the start of each row
cfl_pred_1_c_RowDc(m, dst, stride, ac, alpha, width, height, bd) ==
    The({[st |-> [p \in {dst + y * stride + x
                         : y \in 0 .. height - 1, x \in 0 .. width - 1} |->
                    CflPixel(dc, alpha,
                             ac[((p - dst) \div stride) * width
                                + ((p - dst) % stride)], bd)],
          ld |-> {dst + y * stride : y \in 0 .. height - 1},
          ok |-> TRUE,
          loc |-> [dc |-> dc]]
         : dc \in {m[dst]}})

cfl_pred_1_c(m, dst, stride, ac, alpha, width, height, bd) ==
    The({[st |-> [p \in {dst + y * stride + x
                         : y \in 0 .. height - 1, x \in 0 .. width - 1} |->
                    CflPixel(dc, alpha,
                             ac[((p - dst) \div stride) * width
                                + ((p - dst) % stride)], bd)],
          ld |-> {dst},
          ok |-> TRUE,
          loc |-> [dc |-> dc]]
         : dc \in {m[dst]}})

\* position in program order of the store to offset p of the plane at dst
\* (nth = 0 for the U store of a pixel, 1 for its V store); -1 if none
CflStoreAt(p, dst, stride, width, height, nth) ==
    IF p >= dst /\ (p - dst) % stride < width /\ (p - dst) \div stride < height
    THEN 2 * (((p - dst) \div stride) * width + ((p - dst) % stride)) + nth
    ELSE -1

\* variant: the DC of the V plane is loaded from dstU
cfl_pred_c_SharedDc(m, dstU, dstV, stride, ac, alphas, width, height, bd) ==
    The({[st |-> [p \in {dstU + y * stride + x
                         : y \in 0 .. height - 1, x \in 0 .. width - 1}
                        \cup {dstV + y * stride + x
                              : y \in 0 .. height - 1, x \in 0 .. width - 1} |->
                    IF CflStoreAt(p, dstU, stride, width, height, 0)
                       > CflStoreAt(p, dstV, stride, width, height, 1)
                    THEN CflPixel(dc.U, alphas[1],
                                  ac[CflStoreAt(p, dstU, stride, width,
                                                height, 0) \div 2], bd)
                    ELSE CflPixel(dc.V, alphas[2],
                                  ac[CflStoreAt(p, dstV, stride, width,
                                                height, 1) \div 2], bd)],
          ld |-> {dstU, dstV},
          ok |-> TRUE,
          loc |-> [dcU |-> dc.U, dcV |-> dc.V]]
         : dc \in {[U |-> m[dstU], V |-> m[dstU]]}})

\* each offset holds the value of the last store made to it
cfl_pred_c(m, dstU, dstV, stride, ac, alphas, width, height, bd) ==
    The({[st |-> [p \in {dstU + y * stride + x
                         : y \in 0 .. height - 1, x \in 0 .. width - 1}
                        \cup {dstV + y * stride + x
                              : y \in 0 .. height - 1, x \in 0 .. width - 1} |->
                    IF CflStoreAt(p, dstU, stride, width, height, 0)
                       > CflStoreAt(p, dstV, stride, width, height, 1)
                    THEN CflPixel(dc.U, alphas[1],
                                  ac[CflStoreAt(p, dstU, stride, width,
                                                height, 0) \div 2], bd)
                    ELSE CflPixel(dc.V, alphas[2],
                                  ac[CflStoreAt(p, dstV, stride, width,
                                                height, 1) \div 2], bd)],
          ld |-> {dstU, dstV},
          ok |-> TRUE,
          loc |-> [dcU |-> dc.U, dcV |-> dc.V]]
         : dc \in {[U |-> m[dstU], V |-> m[dstV]]}})

pal_pred_c(stride, pal, idx, w, h, bd) ==
    [st |-> [p \in {y * stride + x : y \in 0 .. h - 1, x \in 0 .. w - 1} |->
               ToPixel(pal[idx[(p \div stride) * w + (p % stride)]], bd)],
     ld |-> {},
     ok |-> TRUE,
     loc |-> <<>>]

(***************************************************************************)
(* The dispatch record Dav1dIntraPredDSPContext and its initializer.       *)
(* A function pointer is modelled by the name of the function; the         *)
(* cfl_ac_fn instance cfl_ac_LWxLH_to_CWxCH_c by the tuple                 *)
(* <<LW, LH, CW, CH>> the macro pastes into its name (<<>> is NULL).       *)
(***************************************************************************)
Modes ==
    {"DC_PRED", "VERT_PRED", "HOR_PRED", "LEFT_DC_PRED", "TOP_DC_PRED",
     "DC_128_PRED", "Z1_PRED", "Z2_PRED", "Z3_PRED", "SMOOTH_PRED",
     "SMOOTH_V_PRED", "SMOOTH_H_PRED", "PAETH_PRED", "FILTER_PRED"}

Layouts == {"I420", "I422", "I444"}

\* the N_RECT_TX_SIZES transform-size tags with their width and height
TxDim ==
    [TX_4X4 |-> <<4, 4>>, TX_8X8 |-> <<8, 8>>, TX_16X16 |-> <<16, 16>>,
     TX_32X32 |-> <<32, 32>>, TX_64X64 |-> <<64, 64>>,
     RTX_4X8 |-> <<4, 8>>, RTX_8X4 |-> <<8, 4>>, RTX_8X16 |-> <<8, 16>>,
     RTX_16X8 |-> <<16, 8>>, RTX_16X32 |-> <<16, 32>>,
     RTX_32X16 |-> <<32, 16>>, RTX_32X64 |-> <<32, 64>>,
     RTX_64X32 |-> <<64, 32>>, RTX_4X16 |-> <<4, 16>>, RTX_16X4 |-> <<16, 4>>,
     RTX_8X32 |-> <<8, 32>>, RTX_32X8 |-> <<32, 8>>, RTX_16X64 |-> <<16, 64>>,
     RTX_64X16 |-> <<64, 16>>]

TxSizes == DOMAIN TxDim

\* the instances of cfl_ac_fn(lw, lh, cw, ch, ss_hor, ss_ver, log2sz)
CflAcFns ==
    {<<8, 8, 4, 4, 1, 1, 4>>, <<8, 16, 4, 8, 1, 1, 5>>,
     <<8, 32, 4, 16, 1, 1, 6>>, <<16, 8, 8, 4, 1, 1, 5>>,
     <<16, 16, 8, 8, 1, 1, 6>>, <<16, 32, 8, 16, 1, 1, 7>>,
     <<32, 8, 16, 4, 1, 1, 6>>, <<32, 16, 16, 8, 1, 1, 7>>,
     <<32, 32, 16, 16, 1, 1, 8>>,
     <<8, 4, 4, 4, 1, 0, 4>>, <<8, 8, 4, 8, 1, 0, 5>>,
     <<16, 4, 8, 4, 1, 0, 5>>, <<16, 8, 8, 8, 1, 0, 6>>,
     <<16, 16, 8, 16, 1, 0, 7>>, <<32, 8, 16, 8, 1, 0, 7>>,
     <<32, 16, 16, 16, 1, 0, 8>>, <<32, 32, 16, 32, 1, 0, 9>>,
     <<4, 4, 4, 4, 0, 0, 4>>, <<4, 8, 4, 8, 0, 0, 5>>,
     <<4, 16, 4, 16, 0, 0, 6>>, <<8, 4, 8, 4, 0, 0, 5>>,
     <<8, 8, 8, 8, 0, 0, 6>>, <<8, 16, 8, 16, 0, 0, 7>>,
     <<8, 32, 8, 32, 0, 0, 8>>, <<16, 4, 16, 4, 0, 0, 6>>,
     <<16, 8, 16, 8, 0, 0, 7>>, <<16, 16, 16, 16, 0, 0, 8>>,
     <<16, 32, 16, 32, 0, 0, 9>>, <<32, 8, 32, 8, 0, 0, 8>>,
     <<32, 16, 32, 16, 0, 0, 9>>, <<32, 32, 32, 32, 0, 0, 10>>}

\* variant: the chroma width and height are passed in the other order
CflAcArgs_Swapped(fn) ==
    The({[width |-> i[4], height |-> i[3], ss_hor |-> i[5], ss_ver |-> i[6],
          log2sz |-> i[7]]
         : i \in {j \in CflAcFns : <<j[1], j[2], j[3], j[4]>> = fn}})

\* the arguments the instance named fn passes to cfl_ac_c
CflAcArgs(fn) ==
    The({[width |-> i[3], height |-> i[4], ss_hor |-> i[5], ss_ver |-> i[6],
          log2sz |-> i[7]]
         : i \in {j \in CflAcFns : <<j[1], j[2], j[3], j[4]>> = fn}})

\* the assignments to c->intra_pred[]
IntraPredC ==
    [DC_PRED |-> "ipred_dc_c", DC_128_PRED |-> "ipred_dc_128_c",
     TOP_DC_PRED |-> "ipred_dc_top_c", LEFT_DC_PRED |-> "ipred_dc_left_c",
     HOR_PRED |-> "ipred_h_c", VERT_PRED |-> "ipred_v_c",
     PAETH_PRED |-> "ipred_paeth_c", SMOOTH_PRED |-> "ipred_smooth_c",
     SMOOTH_V_PRED |-> "ipred_smooth_v_c",
     SMOOTH_H_PRED |-> "ipred_smooth_h_c", Z1_PRED |-> "ipred_z1_c",
     Z2_PRED |-> "ipred_z2_c", Z3_PRED |-> "ipred_z3_c",
     FILTER_PRED |-> "ipred_filter_c"]

\* the assignments to c->cfl_ac[layout - 1][tx]: <<layout, tx, function>>
CflAcC ==
    {<<"I420", "TX_4X4", <<8, 8, 4, 4>> >>,
     <<"I420", "RTX_4X8", <<8, 16, 4, 8>> >>,
     <<"I420", "RTX_4X16", <<8, 32, 4, 16>> >>,
     <<"I420", "RTX_8X4", <<16, 8, 8, 4>> >>,
     <<"I420", "TX_8X8", <<16, 16, 8, 8>> >>,
     <<"I420", "RTX_8X16", <<16, 32, 8, 16>> >>,
     <<"I420", "RTX_16X4", <<32, 8, 16, 4>> >>,
     <<"I420", "RTX_16X8", <<32, 16, 16, 8>> >>,
     <<"I420", "TX_16X16", <<32, 32, 16, 16>> >>,
     <<"I422", "TX_4X4", <<8, 4, 4, 4>> >>,
     <<"I422", "RTX_4X8", <<8, 8, 4, 8>> >>,
     <<"I422", "RTX_8X4", <<16, 4, 8, 4>> >>,
     <<"I422", "TX_8X8", <<16, 8, 8, 8>> >>,
     <<"I422", "RTX_8X16", <<16, 16, 8, 16>> >>,
     <<"I422", "RTX_16X8", <<32, 8, 16, 8>> >>,
     <<"I422", "TX_16X16", <<32, 16, 16, 16>> >>,
     <<"I422", "RTX_16X32", <<32, 32, 16, 32>> >>,
     <<"I444", "TX_4X4", <<4, 4, 4, 4>> >>,
     <<"I444", "RTX_4X8", <<4, 8, 4, 8>> >>,
     <<"I444", "RTX_4X16", <<4, 16, 4, 16>> >>,
     <<"I444", "RTX_8X4", <<8, 4, 8, 4>> >>,
     <<"I444", "TX_8X8", <<8, 8, 8, 8>> >>,
     <<"I444", "RTX_8X16", <<8, 16, 8, 16>> >>,
     <<"I444", "RTX_8X32", <<8, 32, 8, 32>> >>,
     <<"I444", "RTX_16X4", <<16, 4, 16, 4>> >>,
     <<"I444", "RTX_16X8", <<16, 8, 16, 8>> >>,
     <<"I444", "TX_16X16", <<16, 16, 16, 16>> >>,
     <<"I444", "RTX_16X32", <<16, 32, 16, 32>> >>,
     <<"I444", "RTX_32X8", <<32, 8, 32, 8>> >>,
     <<"I444", "RTX_32X16", <<32, 16, 32, 16>> >>,
     <<"I444", "TX_32X32", <<32, 32, 32, 32>> >>}

\* the assignments to c->cfl_pred_1[] and c->cfl_pred[]
CflPred1C ==
    [i \in 0 .. 3 |-> <<"cfl_pred_1_4xN_c", "cfl_pred_1_8xN_c",
                        "cfl_pred_1_16xN_c", "cfl_pred_1_32xN_c">>[i + 1]]
CflPredC ==
    [i \in 0 .. 3 |-> <<"cfl_pred_4xN_c", "cfl_pred_8xN_c",
                        "cfl_pred_16xN_c", "cfl_pred_32xN_c">>[i + 1]]

\* the width the instances of cfl_pred_1_fn / cfl_pred_fn pass on
CflPredWidth ==
    [cfl_pred_1_4xN_c |-> 4, cfl_pred_1_8xN_c |-> 8, cfl_pred_1_16xN_c |-> 16,
     cfl_pred_1_32xN_c |-> 32, cfl_pred_4xN_c |-> 4, cfl_pred_8xN_c |-> 8,
     cfl_pred_16xN_c |-> 16, cfl_pred_32xN_c |-> 32]

(***************************************************************************)
(* dav1d_intra_pred_dsp_init_x86 (src/x86/ipred_init.c), called last by    *)
(* the initializer when HAVE_ASM && ARCH_X86: it replaces entries of the   *)
(* record in place by SIMD kernels the CPU supports.                       *)
(***************************************************************************)
X86Modes == {"DC_PRED", "DC_128_PRED", "TOP_DC_PRED", "LEFT_DC_PRED",
             "HOR_PRED", "VERT_PRED"}

X86Name ==
    [DC_PRED |-> "ipred_dc_avx2", DC_128_PRED |-> "ipred_dc_128_avx2",
     TOP_DC_PRED |-> "ipred_dc_top_avx2", LEFT_DC_PRED |-> "ipred_dc_left_avx2",
     HOR_PRED |-> "ipred_h_avx2", VERT_PRED |-> "ipred_v_avx2"]

dav1d_intra_pred_dsp_init_x86(c0, flags) ==
    IF "AVX2" \in flags
    THEN [c0 EXCEPT !.intra_pred =
             [m \in Modes |-> IF m \in X86Modes
                              THEN X86Name[m] ELSE c0.intra_pred[m]]]
    ELSE c0

\* variant: the assignment to c->pal_pred is left out
ScalarInit_NoPal(c0) ==
    [intra_pred |-> [m \in Modes |-> IntraPredC[m]],
     cfl_ac |-> [k \in Layouts \X TxSizes |->
                   IF \E a \in CflAcC : <<a[1], a[2]>> = k
                   THEN The({a[3] : a \in {b \in CflAcC : <<b[1], b[2]>> = k}})
                   ELSE c0.cfl_ac[k]],
     cfl_pred_1 |-> CflPred1C,
     cfl_pred |-> CflPredC,
     pal_pred |-> c0.pal_pred]

\* the record after the assignments of the scalar part
ScalarInit(c0) ==
    [intra_pred |-> [m \in Modes |-> IntraPredC[m]],
     cfl_ac |-> [k \in Layouts \X TxSizes |->
                   IF \E a \in CflAcC : <<a[1], a[2]>> = k
                   THEN The({a[3] : a \in {b \in CflAcC : <<b[1], b[2]>> = k}})
                   ELSE c0.cfl_ac[k]],
     cfl_pred_1 |-> CflPred1C,
     cfl_pred |-> CflPredC,
     pal_pred |-> "pal_pred_c"]

dav1d_intra_pred_dsp_init(c0, have_asm, flags) ==
    IF have_asm THEN dav1d_intra_pred_dsp_init_x86(ScalarInit(c0), flags)
                ELSE ScalarInit(c0)

\* dispatch records before initialization: zeroed, or left over
ZeroRecord ==
    [intra_pred |-> [m \in Modes |-> "NULL"],
     cfl_ac |-> [k \in Layouts \X TxSizes |-> <<>>],
     cfl_pred_1 |-> [i \in 0 .. 3 |-> "NULL"],
     cfl_pred |-> [i \in 0 .. 3 |-> "NULL"],
     pal_pred |-> "NULL"]

StaleRecord ==
    [intra_pred |-> [m \in Modes |-> "ipred_v_c"],
     cfl_ac |-> [k \in Layouts \X TxSizes |-> <<4, 4, 4, 4>>],
     cfl_pred_1 |-> [i \in 0 .. 3 |-> "cfl_pred_1_32xN_c"],
     cfl_pred |-> [i \in 0 .. 3 |-> "cfl_pred_4xN_c"],
     pal_pred |-> "stale"]

(***************************************************************************)
(* The caller: it initializes the dispatch record, sets up the arguments   *)
(* of one kernel invocation and calls through the record.                  *)
(***************************************************************************)
\* the kernel named fn, called with the arguments of an intra_pred entry
RunIntraPred(fn, m, stride, topleft, width, height, a, bd, tseed) ==
    CASE fn = "ipred_dc_c" -> ipred_dc_c(stride, topleft, width, height, a, bd)
      [] fn = "ipred_dc_128_c" ->
            ipred_dc_128_c(stride, topleft, width, height, a, bd)
      [] fn = "ipred_dc_top_c" ->
            ipred_dc_top_c(stride, topleft, width, height, a, bd)
      [] fn = "ipred_dc_left_c" ->
            ipred_dc_left_c(stride, topleft, width, height, a, bd)
      [] fn = "ipred_h_c" -> ipred_h_c(stride, topleft, width, height, a, bd)
      [] fn = "ipred_v_c" -> ipred_v_c(stride, topleft, width, height, a, bd)
      [] fn = "ipred_paeth_c" ->
            ipred_paeth_c(stride, topleft, width, height, a, bd)
      [] fn = "ipred_smooth_c" ->
            ipred_smooth_c(stride, topleft, width, height, a, bd, tseed)
      [] fn = "ipred_smooth_v_c" ->
            ipred_smooth_v_c(stride, topleft, width, height, a, bd, tseed)
      [] fn = "ipred_smooth_h_c" ->
            ipred_smooth_h_c(stride, topleft, width, height, a, bd, tseed)
      [] fn = "ipred_z1_c" -> ipred_z1_c(stride, topleft, width, height, a, bd)
      [] fn = "ipred_z2_c" -> ipred_z2_c(stride, topleft, width, height, a, bd)
      [] fn = "ipred_z3_c" -> ipred_z3_c(stride, topleft, width, height, a, bd)
      [] fn = "ipred_filter_c" ->
            ipred_filter_c(m, stride, topleft, width, height, a, bd, tseed)

\* the angle (with the is_sm bit at 1 << 9) or filter index passed to a mode
\* (the is_sm bit goes with the data pattern)
AngleArgs(mode, seed) ==
    CASE mode = "Z1_PRED" -> {a + 512 * (seed % 2) : a \in Angles}
      [] mode = "Z2_PRED" -> {90 + a + 512 * (seed % 2) : a \in Angles}
      [] mode = "Z3_PRED" -> {270 - a + 512 * (seed % 2) : a \in Angles}
      [] mode = "FILTER_PRED" -> {0, 4, 512 + 2}
      [] OTHER -> {0}

\* FILTER_PRED is used up to 32x32 only
SizesOf(mode) == IF mode = "FILTER_PRED" THEN Sizes \ {64} ELSE Sizes

\* the contents of the tables go with the data pattern
TableSeed(seed) == (seed + 1) % (MaxSeed + 1)

\* row padding goes with the data pattern
Pad(seed) == IF seed % 2 = 0 THEN 0 ELSE MaxPad

\* an int16_t array of n entries
AcArray(seed, n) ==
    [i \in 0 .. n - 1 |->
        CASE seed = 0 -> -32768
          [] seed = 1 -> 32767
          [] OTHER -> (((i + 300) * (seed * 97 + 31) + (i + 300) * (i + 300) * 7)
                          % 65536) - 32768]

\* int8_t scale factors
Alphas == {-128, -3, 0, 16, 127}

\* palette of 8 entries and an index map into it
PalSize == 8
Palette(seed, bd) == [i \in 0 .. PalSize - 1 |-> Sample(seed, i, bd)]
PalIdx(seed, n) == [i \in 0 .. n - 1 |-> Sample(seed + 2, i, 8) % PalSize]

Init ==
    /\ pc = "init"
    /\ c = ZeroRecord
    /\ BITDEPTH \in BitDepths
    /\ HAVE_ASM = FALSE
    /\ cpu_flags = {}
    /\ call = <<>>
    /\ mem0 = <<>>
    /\ mem = <<>>
    /\ st = <<>>
    /\ rd = {}
    /\ loc = <<>>

DspInit ==
    /\ pc = "init"
    /\ c' = dav1d_intra_pred_dsp_init(c, HAVE_ASM, cpu_flags)
    /\ pc' = "ready"
    /\ UNCHANGED <<BITDEPTH, HAVE_ASM, cpu_flags, call, mem0, mem, st, rd, loc>>

\* the invocation with result r completes; when an assert() of the kernel
\* fails, a build that keeps assert() aborts before the stores and a build
\* with NDEBUG carries on
Return(r, ndebug) ==
    IF r.ok \/ ndebug
    THEN /\ st' = r.st
         /\ rd' = r.ld
         /\ loc' = r.loc
         /\ mem0' = mem
         /\ mem' = Apply(mem, st')
         /\ pc' = "done"
    ELSE /\ pc' = "abort"
         /\ UNCHANGED <<mem0, mem, st, rd, loc>>

\* the caller sets up a call of c->intra_pred[mode]
CallIntraPred ==
    /\ pc = "ready"
    /\ \E mode \in Modes, seed \in Seeds :
         \E width \in SizesOf(mode), height \in SizesOf(mode),
            a \in AngleArgs(mode, seed) :
            /\ call' = [fn |-> "intra_pred", mode |-> mode, dst |-> 0,
                        stride |-> width + Pad(seed),
                        topleft |-> Neighbours(seed, width, height, BITDEPTH),
                        width |-> width, height |-> height, angle |-> a,
                        tseed |-> TableSeed(seed)]
            /\ mem' = Plane(seed, -(width + Pad(seed)),
                            (height + 1) * (width + Pad(seed)) - 1, BITDEPTH)
    /\ pc' = "call"
    /\ UNCHANGED <<c, BITDEPTH, HAVE_ASM, cpu_flags, mem0, st, rd, loc>>

\* the kernel bound to c->intra_pred[mode] runs
intra_pred ==
    /\ pc = "call"
    /\ call.fn = "intra_pred"
    /\ \E r \in {RunIntraPred(c.intra_pred[call.mode], mem, call.stride,
                              call.topleft, call.width, call.height,
                              call.angle, BITDEPTH, call.tseed)} :
         \E ndebug \in BOOLEAN : Return(r, ndebug)
    /\ UNCHANGED <<c, BITDEPTH, HAVE_ASM, cpu_flags, call>>

\* the caller sets up a call of c->cfl_pred_1[i]
CallCflPred1 ==
    /\ pc = "ready"
    /\ \E i \in 0 .. 3, height \in Sizes \ {64}, seed \in Seeds,
          alpha \in Alphas :
         \E width \in {CflPredWidth[c.cfl_pred_1[i]]} :
            /\ call' = [fn |-> "cfl_pred_1", i |-> i, dst |-> 0,
                        stride |-> width + Pad(seed),
                        ac |-> AcArray(seed, width * height),
                        alpha |-> alpha, width |-> width, height |-> height]
            /\ mem' = Plane(TableSeed(seed), -(width + Pad(seed)),
                            (height + 1) * (width + Pad(seed)) - 1, BITDEPTH)
    /\ pc' = "call"
    /\ UNCHANGED <<c, BITDEPTH, HAVE_ASM, cpu_flags, mem0, st, rd, loc>>

cfl_pred_1 ==
    /\ pc = "call"
    /\ call.fn = "cfl_pred_1"
    /\ \E r \in {cfl_pred_1_c(mem, call.dst, call.stride, call.ac, call.alpha,
                              CflPredWidth[c.cfl_pred_1[call.i]], call.height,
                              BITDEPTH)} :
         \E ndebug \in BOOLEAN : Return(r, ndebug)
    /\ UNCHANGED <<c, BITDEPTH, HAVE_ASM, cpu_flags, call>>

\* the caller sets up a call of c->cfl_pred[i]: the V plane lies below the
\* U plane
CallCflPred ==
    /\ pc = "ready"
    /\ \E i \in 0 .. 3, height \in Sizes \ {64}, seed \in Seeds,
          alphaU \in Alphas :
         \E width \in {CflPredWidth[c.cfl_pred[i]]} :
            /\ call' = [fn |-> "cfl_pred", i |-> i, dst |-> 0,
                        dstV |-> (height + 1) * (width + Pad(seed)),
                        stride |-> width + Pad(seed),
                        ac |-> AcArray(seed, width * height),
                        alphas |-> <<alphaU, -alphaU>>,
                        width |-> width, height |-> height]
            /\ mem' = Plane(TableSeed(seed), -(width + Pad(seed)),
                            (2 * height + 2) * (width + Pad(seed)) - 1, BITDEPTH)
    /\ pc' = "call"
    /\ UNCHANGED <<c, BITDEPTH, HAVE_ASM, cpu_flags, mem0, st, rd, loc>>

cfl_pred ==
    /\ pc = "call"
    /\ call.fn = "cfl_pred"
    /\ \E r \in {cfl_pred_c(mem, call.dst, call.dstV, call.stride, call.ac,
                            call.alphas, CflPredWidth[c.cfl_pred[call.i]],
                            call.height, BITDEPTH)} :
         \E ndebug \in BOOLEAN : Return(r, ndebug)
    /\ UNCHANGED <<c, BITDEPTH, HAVE_ASM, cpu_flags, call>>

\* the caller sets up a call of c->pal_pred
CallPalPred ==
    /\ pc = "ready"
    /\ \E width \in Sizes, height \in Sizes, seed \in Seeds :
         /\ call' = [fn |-> "pal_pred", dst |-> 0,
                     stride |-> width + Pad(seed),
                     pal |-> Palette(seed, BITDEPTH),
                     idx |-> PalIdx(seed, width * height),
                     width |-> width, height |-> height]
         /\ mem' = Plane(seed, -(width + Pad(seed)),
                         (height + 1) * (width + Pad(seed)) - 1, BITDEPTH)
    /\ pc' = "call"
    /\ UNCHANGED <<c, BITDEPTH, HAVE_ASM, cpu_flags, mem0, st, rd, loc>>

pal_pred ==
    /\ pc = "call"
    /\ call.fn = "pal_pred"
    /\ c.pal_pred = "pal_pred_c"
    /\ \E r \in {pal_pred_c(call.stride, call.pal, call.idx, call.width,
                            call.height, BITDEPTH)} :
         \E ndebug \in BOOLEAN : Return(r, ndebug)
    /\ UNCHANGED <<c, BITDEPTH, HAVE_ASM, cpu_flags, call>>

Next ==
    \/ DspInit
    \/ CallIntraPred
    \/ intra_pred
    \/ CallCflPred1
    \/ cfl_pred_1
    \/ CallCflPred
    \/ cfl_pred
    \/ CallPalPred
    \/ pal_pred

Spec == Init /\ [][Next]_vars

(***************************************************************************)
(* Properties of a kernel invocation (specification Spec).                 *)
(***************************************************************************)
\* the rectangle(s) of the destination the invocation is to fill
DstRect ==
    Rect(call.dst, call.stride, call.width, call.height)
    \cup (IF call.fn = "cfl_pred"
          THEN Rect(call.dstV, call.stride, call.width, call.height) ELSE {})

\* the block shapes ipred_dc_c has a multiplier for
DcShape(width, height) == imax(width, height) <= 4 * imin(width, height)

StoresInRange == \A p \in DOMAIN st : st[p] \in 0 .. PixelMax(BITDEPTH)

C2_WritesExactlyRect ==
    pc = "done"
    => \A R \in {DstRect} :
          /\ DOMAIN st = R
          /\ \A p \in DOMAIN mem :
               mem[p] = IF p \in R THEN st[p] ELSE mem0[p]

\* an 8 bit DC call on a block 8 wide (one 8 byte store per row) in a
\* buffer with row padding changed the block and nothing else
C2_Witness ==
    /\ pc = "done"
    /\ BITDEPTH = 8
    /\ call.fn = "intra_pred"
    /\ call.mode \in {"DC_PRED", "TOP_DC_PRED", "LEFT_DC_PRED", "DC_128_PRED"}
    /\ call.width = 8
    /\ call.stride > call.width
    /\ \A R \in {DstRect} :
          /\ DOMAIN st = R
          /\ \E p \in R : mem[p] # mem0[p]
          /\ \A p \in (DOMAIN mem) \ R : mem[p] = mem0[p]

IsFilterCall == call.fn = "intra_pred" /\ call.mode = "FILTER_PRED"

\* C3 as claimed: no kernel other than FILTER loads a sample of its own
\* destination, the CFL kernels cfl_pred_1 and cfl_pred and pal_pred
\* included
C3_NoDstLoads == (pc = "done" /\ ~IsFilterCall) => rd = {}

\* C3, amended: no intra_pred kernel other than FILTER, and not pal_pred,
\* loads a sample of its own destination; cfl_pred_1 and cfl_pred load
\* exactly the first sample of each destination plane (the DC value the
\* caller left there), which they use as dc
C3_DstLoads ==
    pc = "done"
    => CASE call.fn = "cfl_pred_1" ->
              rd = {call.dst} /\ loc.dc = mem0[call.dst]
         [] call.fn = "cfl_pred" ->
              /\ rd = {call.dst, call.dstV}
              /\ loc.dcU = mem0[call.dst]
              /\ loc.dcV = mem0[call.dstV]
         [] IsFilterCall -> TRUE
         [] OTHER -> rd = {}

\* a cfl_pred call loaded the first sample of both planes and nothing else
C3_Witness ==
    /\ pc = "done"
    /\ call.fn = "cfl_pred"
    /\ rd = {call.dst, call.dstV}
    /\ call.dst # call.dstV
    /\ mem # mem0


(***************************************************************************)
(* Specification SpecInit: the initializer is called twice on a dispatch   *)
(* record that starts zeroed, stale or partly stale, in a build with or    *)
(* without HAVE_ASM && ARCH_X86 and on a CPU with or without AVX2.  loc    *)
(* keeps the record before the first call and the record after it.         *)
(***************************************************************************)
\* dispatch records the initializer may be handed
StartRecords ==
    {ZeroRecord, StaleRecord}
    \cup {[ZeroRecord EXCEPT !.intra_pred[m] = "ipred_dc_128_c"] : m \in Modes}
    \cup {[StaleRecord EXCEPT !.cfl_ac[k] = <<>>]
          : k \in {<<"I420", "TX_64X64">>, <<"I444", "TX_4X4">>}}

InitInit ==
    /\ pc = "init"
    /\ c \in StartRecords
    /\ BITDEPTH \in BitDepths
    /\ HAVE_ASM \in BOOLEAN
    /\ cpu_flags \in SUBSET {"AVX2"}
    /\ call = <<>>
    /\ mem0 = Plane(2, 0, 15, BITDEPTH)
    /\ mem = mem0
    /\ st = <<>>
    /\ rd = {}
    /\ loc = <<>>

\* first call of the initializer
InitOnce ==
    /\ pc = "init"
    /\ c' = dav1d_intra_pred_dsp_init(c, HAVE_ASM, cpu_flags)
    /\ loc' = [before |-> c]
    /\ pc' = "once"
    /\ UNCHANGED <<BITDEPTH, HAVE_ASM, cpu_flags, call, mem0, mem, st, rd>>

\* second call of the initializer, on the record the first call left
InitTwice ==
    /\ pc = "once"
    /\ c' = dav1d_intra_pred_dsp_init(c, HAVE_ASM, cpu_flags)
    /\ loc' = [before |-> loc.before, once |-> c]
    /\ pc' = "twice"
    /\ UNCHANGED <<BITDEPTH, HAVE_ASM, cpu_flags, call, mem0, mem, st, rd>>

NextInit ==
    \/ InitOnce
    \/ InitTwice

SpecInit == InitInit /\ [][NextInit]_vars

\* the reference kernel of each intra_pred mode
ReferenceKernel ==
    [DC_PRED |-> "ipred_dc_c", VERT_PRED |-> "ipred_v_c",
     HOR_PRED |-> "ipred_h_c", LEFT_DC_PRED |-> "ipred_dc_left_c",
     TOP_DC_PRED |-> "ipred_dc_top_c", DC_128_PRED |-> "ipred_dc_128_c",
     Z1_PRED |-> "ipred_z1_c", Z2_PRED |-> "ipred_z2_c",
     Z3_PRED |-> "ipred_z3_c", SMOOTH_PRED |-> "ipred_smooth_c",
     SMOOTH_V_PRED |-> "ipred_smooth_v_c",
     SMOOTH_H_PRED |-> "ipred_smooth_h_c", PAETH_PRED |-> "ipred_paeth_c",
     FILTER_PRED |-> "ipred_filter_c"]

\* the reference kernels of the cfl_pred_1 and cfl_pred entries
ReferenceCflPred1 ==
    <<"cfl_pred_1_4xN_c", "cfl_pred_1_8xN_c", "cfl_pred_1_16xN_c",
      "cfl_pred_1_32xN_c">>
ReferenceCflPred ==
    <<"cfl_pred_4xN_c", "cfl_pred_8xN_c", "cfl_pred_16xN_c",
      "cfl_pred_32xN_c">>

Initialized == pc \in {"once", "twice"}

\* the record after two calls is the record after one call
InitIdempotent == pc = "twice" => c = loc.once

\* the entries the architecture hook did not replace
NotReplaced(m) ==
    ~HAVE_ASM
    \/ \A s \in {ScalarInit(loc.before)} :
          dav1d_intra_pred_dsp_init_x86(s, cpu_flags).intra_pred[m]
            = s.intra_pred[m]

\* every intra_pred entry holds its reference kernel
IntraPredBound == \A m \in Modes : c.intra_pred[m] = ReferenceKernel[m]

\* the cfl_pred_1, cfl_pred and pal_pred entries hold their reference kernel
CflPalBound ==
    /\ \A i \in 0 .. 3 : /\ c.cfl_pred_1[i] = ReferenceCflPred1[i + 1]
                         /\ c.cfl_pred[i] = ReferenceCflPred[i + 1]
    /\ c.pal_pred = "pal_pred_c"

\* a call of the initializer changes nothing but the dispatch record (and
\* the bookkeeping of this specification)
InitFrame ==
    (InitOnce \/ InitTwice)
    => UNCHANGED <<BITDEPTH, HAVE_ASM, cpu_flags, call, mem0, mem, st, rd>>

LumaRows == 64

\* the luma plane: LumaRows rows of stride samples, all zero, all maximal
\* or irregular
Luma(seed, stride, bd) ==
    [p \in 0 .. LumaRows * stride - 1 |->
        IF seed < 2 THEN Sample(seed, p, bd)
        ELSE (Sample(seed, p, bd) * ((p % 13) + 3)) \div 16]

\* the paddings (in units of four chroma samples) the assertions admit
LegalPads(n) == {k \in 0 .. MaxCflPad : 4 * k < n}

\* the caller sets up a call of an installed entry of c->cfl_ac
CallCflAc ==
    /\ pc = "ready"
    /\ \E layout \in Layouts, tx \in TxSizes, seed \in Seeds :
         /\ c.cfl_ac[<<layout, tx>>] # <<>>
         /\ \E fn \in {c.cfl_ac[<<layout, tx>>]} :
              \E w_pad \in LegalPads(fn[3]), h_pad \in LegalPads(fn[4]) :
                 /\ call' = [fn |-> "cfl_ac", layout |-> layout, tx |-> tx,
                             ypx |-> 0, stride |-> fn[1] + Pad(seed),
                             w_pad |-> w_pad, h_pad |-> h_pad, seed |-> seed]
                 /\ mem' = Luma(seed, fn[1] + Pad(seed), BITDEPTH)
    /\ pc' = "call"
    /\ UNCHANGED <<c, BITDEPTH, HAVE_ASM, cpu_flags, mem0, st, rd, loc>>

\* the instance of cfl_ac_fn bound to the entry runs: it calls cfl_ac_c
cfl_ac ==
    /\ pc = "call"
    /\ call.fn = "cfl_ac"
    /\ \E fn \in {c.cfl_ac[<<call.layout, call.tx>>]} :
         \E a \in {CflAcArgs(fn)} :
            \E r \in {cfl_ac_c(mem, call.stride, call.w_pad, call.h_pad,
                               a.width, a.height, a.ss_hor, a.ss_ver,
                               a.log2sz)} :
               /\ loc' = [name |-> fn, args |-> a, ac |-> r.ac,
                          filled |-> r.filled, sum |-> r.sum,
                          scaled |-> r.scaled]
               /\ pc' = IF r.ok THEN "done" ELSE "abort"
    /\ UNCHANGED <<c, BITDEPTH, HAVE_ASM, cpu_flags, call, mem0, mem, st, rd>>

NextCflAc ==
    \/ DspInit
    \/ CallCflAc
    \/ cfl_ac

SpecCflAc == Init /\ [][NextCflAc]_vars

\* the subsampling flags (ss_hor, ss_ver) of a chroma layout
LayoutSs == [I420 |-> <<1, 1>>, I422 |-> <<1, 0>>, I444 |-> <<0, 0>>]

\* the number of cfl_ac entries a layout is to have
LayoutEntries == [I420 |-> 9, I422 |-> 8, I444 |-> 14]

\* the installed cfl_ac entries of a layout
Installed(layout) == {tx \in TxSizes : c.cfl_ac[<<layout, tx>>] # <<>>}

\* C5: the initializer installs 9 + 8 + 14 cfl_ac entries, and the instance
\* bound to (layout, tx_size) calls cfl_ac_c with the chroma width and
\* height tx_size names, the subsampling flags of the layout, luma
\* dimensions equal to the chroma dimensions shifted left by the flags, and
\* log2sz = log2(width * height)
C5_CflAcInstances ==
    /\ pc # "init"
         => \A layout \in Layouts :
               Cardinality(Installed(layout)) = LayoutEntries[layout]
    /\ (pc = "done" /\ call.fn = "cfl_ac")
         => /\ <<loc.args.width, loc.args.height>> = TxDim[call.tx]
            /\ <<loc.args.ss_hor, loc.args.ss_ver>> = LayoutSs[call.layout]
            /\ loc.name[1] = loc.args.width * 2^loc.args.ss_hor
            /\ loc.name[2] = loc.args.height * 2^loc.args.ss_ver
            /\ loc.name[3] = loc.args.width
            /\ loc.name[4] = loc.args.height
            /\ 2^loc.args.log2sz = loc.args.width * loc.args.height

\* the 4:2:2 entry of RTX_16X32 ran with chroma 16x32, flags (1, 0), luma
\* 32x32 and log2sz 9
C5_Witness ==
    /\ pc = "done"
    /\ call.fn = "cfl_ac"
    /\ call.layout = "I422"
    /\ call.tx = "RTX_16X32"
    /\ loc.name = <<32, 32, 16, 32>>
    /\ loc.args = [width |-> 16, height |-> 32, ss_hor |-> 1, ss_ver |-> 0,
                   log2sz |-> 9]

InInt16(v) == v >= -32768 /\ v <= 32767

\* C8: after an instance of cfl_ac returns, the sum S of the N =
\* width * height AC samples satisfies |S| <= N / 2, and no value assigned
\* to an AC sample was outside the int16 range
C8_CflAcZeroMean ==
    (pc = "done" /\ call.fn = "cfl_ac")
      => \A n \in {loc.args.width * loc.args.height} :
            /\ 2 * abs(SumIdx(loc.ac, 0, n - 1)) <= n
            /\ \A v \in loc.scaled : InInt16(v)
            /\ \A i \in 0 .. n - 1 : InInt16(loc.filled[i] - loc.sum)

\* a padded 32x32 call on irregular 10 bit luma left positive and negative
\* AC samples whose sum is not zero
C8_Witness ==
    /\ pc = "done"
    /\ call.fn = "cfl_ac"
    /\ BITDEPTH = 10
    /\ loc.args.width = 32
    /\ loc.args.height = 32
    /\ call.w_pad > 0
    /\ call.h_pad > 0
    /\ SumIdx(loc.ac, 0, 1023) # 0
    /\ \E i \in 0 .. 1023 : loc.ac[i] < 0
    /\ \E i \in 0 .. 1023 : loc.ac[i] > 0

(***************************************************************************)
(* Specification SpecCfl: the same U and V planes are predicted once by    *)
(* c->cfl_pred[i] (result in mem) and once by c->cfl_pred_1[i] on U        *)
(* followed by c->cfl_pred_1[i] on V, both started from the planes in mem0 *)
(* (loc.u is the memory after the first call, loc.v after the second).     *)
(***************************************************************************)
\* (alphas[0], alphas[1])
AlphaPairs == {<<-128, 127>>, <<-3, 16>>, <<0, -3>>, <<16, 16>>, <<127, -128>>}

\* where the caller puts the V plane: below the U plane, beside it within
\* the same rows, or across its lower half
PlaneLayouts == {"below", "beside", "across"}

CflStride(layout, width, seed) ==
    IF layout = "beside" THEN 2 * width + Pad(seed) ELSE width + Pad(seed)

CflDstV(layout, stride, width, height) ==
    CASE layout = "below" -> (height + 1) * stride
      [] layout = "beside" -> width
      [] layout = "across" -> (height \div 2) * stride

CallCflPair ==
    /\ pc = "ready"
    /\ \E i \in 0 .. 3, height \in Sizes \ {64}, seed \in Seeds,
          alphas \in AlphaPairs, layout \in PlaneLayouts :
         \E width \in {CflPredWidth[c.cfl_pred[i]]} :
            \E stride \in {CflStride(layout, width, seed)} :
               /\ call' = [fn |-> "cfl_pair", i |-> i, dst |-> 0,
                           dstV |-> CflDstV(layout, stride, width, height),
                           stride |-> stride,
                           ac |-> AcArray(seed, width * height),
                           alphas |-> alphas,
                           width |-> width, height |-> height]
               /\ mem0' = Plane(TableSeed(seed), -stride,
                                (2 * height + 2) * stride - 1, BITDEPTH)
               /\ mem' = mem0'
    /\ pc' = "call"
    /\ UNCHANGED <<c, BITDEPTH, HAVE_ASM, cpu_flags, st, rd, loc>>

\* c->cfl_pred[i](dstU, dstV, stride, ac, alphas, height)
CflPredBoth ==
    /\ pc = "call"
    /\ call.fn = "cfl_pair"
    /\ \E r \in {cfl_pred_c(mem, call.dst, call.dstV, call.stride, call.ac,
                            call.alphas, CflPredWidth[c.cfl_pred[call.i]],
                            call.height, BITDEPTH)} :
         /\ st' = r.st
         /\ rd' = r.ld
         /\ mem' = Apply(mem, r.st)
    /\ pc' = "both"
    /\ UNCHANGED <<c, BITDEPTH, HAVE_ASM, cpu_flags, call, mem0, loc>>

\* c->cfl_pred_1[i](dstU, stride, ac, alphas[0], height) on the planes of
\* mem0
CflPred1U ==
    /\ pc = "both"
    /\ \E r \in {cfl_pred_1_c(mem0, call.dst, call.stride, call.ac,
                              call.alphas[1],
                              CflPredWidth[c.cfl_pred_1[call.i]],
                              call.height, BITDEPTH)} :
         loc' = [u |-> Apply(mem0, r.st)]
    /\ pc' = "u"
    /\ UNCHANGED <<c, BITDEPTH, HAVE_ASM, cpu_flags, call, mem0, mem, st, rd>>

\* c->cfl_pred_1[i](dstV, stride, ac, alphas[1], height) on what the call
\* for U left
CflPred1V ==
    /\ pc = "u"
    /\ \E r \in {cfl_pred_1_c(loc.u, call.dstV, call.stride, call.ac,
                              call.alphas[2],
                              CflPredWidth[c.cfl_pred_1[call.i]],
                              call.height, BITDEPTH)} :
         loc' = [u |-> loc.u, v |-> Apply(loc.u, r.st)]
    /\ pc' = "done"
    /\ UNCHANGED <<c, BITDEPTH, HAVE_ASM, cpu_flags, call, mem0, mem, st, rd>>

NextCfl ==
    \/ DspInit
    \/ CallCflPair
    \/ CflPredBoth
    \/ CflPred1U
    \/ CflPred1V

SpecCfl == Init /\ [][NextCfl]_vars

\* the U and the V rectangle have no sample in common
PlanesDisjoint ==
    Rect(call.dst, call.stride, call.width, call.height)
    \cap Rect(call.dstV, call.stride, call.width, call.height) = {}

\* C7: when the U and V planes do not overlap, cfl_pred leaves the memory
\* as cfl_pred_1 on U with alphas[0] followed by cfl_pred_1 on V with
\* alphas[1] leaves it
C7_CflPredIsTwoCflPred1 ==
    (pc = "done" /\ call.fn = "cfl_pair" /\ PlanesDisjoint) => mem = loc.v

\* planes side by side in the same rows, alphas (-3, 16): both ways gave
\* the same memory, which differs from the initial one in both planes
C7_Witness ==
    /\ pc = "done"
    /\ call.fn = "cfl_pair"
    /\ PlanesDisjoint
    /\ call.dstV = call.width
    /\ call.alphas = <<-3, 16>>
    /\ mem = loc.v
    /\ \E p \in Rect(call.dst, call.stride, call.width, call.height) :
          mem[p] # mem0[p]
    /\ \E p \in Rect(call.dstV, call.stride, call.width, call.height) :
          mem[p] # mem0[p]

(***************************************************************************)
(* Specification SpecDc: c->intra_pred[DC_PRED] is called on neighbour     *)
(* vectors whose sum T sits on either side of a rounding boundary of       *)
(* (T + n/2) / n, n = width + height, for DC levels from both ends of the  *)
(* sample range and every 32nd level in between.                           *)
(***************************************************************************)
DcLevels(bd) ==
    {q \in 1 .. PixelMax(bd) :
        q <= MaxDcLevels \/ q > PixelMax(bd) - MaxDcLevels \/ q % 32 = 0}

\* sums T with T + n/2 = q * n - 1 or q * n, and the extreme sums
DcSums(n, bd) ==
    {0, n * PixelMax(bd)}
    \cup {q * n - (n \div 2) - 1 : q \in DcLevels(bd)}
    \cup {q * n - (n \div 2) : q \in DcLevels(bd)}

\* a neighbour vector whose width top and height left samples sum to T:
\* taken in the order top[0 ..], left[0 ..], the first T / max samples are
\* max, the next is T % max and the others are 0; topleft[0] and the
\* entries beyond the block are max
NeighboursWithSum(T, width, height, bd) ==
    [i \in -(width + height) .. (width + height) |->
        IF i = 0 \/ i > width \/ -i > height THEN PixelMax(bd)
        ELSE The({IF k < T \div PixelMax(bd) THEN PixelMax(bd)
                  ELSE IF k = T \div PixelMax(bd) THEN T % PixelMax(bd)
                  ELSE 0
                  : k \in {IF i > 0 THEN i - 1 ELSE width + (-i - 1)}})]

CallDc ==
    /\ pc = "ready"
    /\ \E width \in Sizes, height \in Sizes :
         \E T \in DcSums(width + height, BITDEPTH) :
            /\ call' = [fn |-> "intra_pred", mode |-> "DC_PRED", dst |-> 0,
                        stride |-> width + Pad(T),
                        topleft |-> NeighboursWithSum(T, width, height,
                                                      BITDEPTH),
                        width |-> width, height |-> height, angle |-> 0,
                        tseed |-> 0]
            /\ mem' = Plane(2, -(width + Pad(T)),
                            (height + 1) * (width + Pad(T)) - 1, BITDEPTH)
    /\ pc' = "call"
    /\ UNCHANGED <<c, BITDEPTH, HAVE_ASM, cpu_flags, mem0, st, rd, loc>>

NextDc ==
    \/ DspInit
    \/ CallDc
    \/ intra_pred

SpecDc == Init /\ [][NextDc]_vars

\* the sum of the width top and height left samples of the call
CallSum ==
    SumIdx([i \in 1 .. call.width |-> call.topleft[i]], 1, call.width)
    + SumIdx([i \in 1 .. call.height |-> call.topleft[-i]], 1, call.height)

\* the multiplier and shift of the claim for a block of the given ratio
ClaimMultiplier(ratio, bd) ==
    CASE bd = 8 /\ ratio = 2 -> 21846      \* 0x5556
      [] bd = 8 /\ ratio = 4 -> 13108      \* 0x3334
      [] bd = 10 /\ ratio = 2 -> 43691     \* 0xAAAB
      [] bd = 10 /\ ratio = 4 -> 26215     \* 0x6667
      [] OTHER -> 1
ClaimShift(ratio, bd) == IF ratio = 1 THEN 0 ELSE IF bd = 8 THEN 16 ELSE 17

\* C9: on a block whose longer side is 1, 2 or 4 times the shorter one,
\* ipred_dc_c stores floor((T + n/2) / n), n = width + height, in every
\* sample of the block, the shifted sum times the multiplier (0x5556 /
\* 0x3334 with shift 16 at 8 bit, 0xAAAB / 0x6667 with shift 17 at 10 bit)
\* is that quotient after the shift, and the product stays below 2^32
C9_DcIsExactDivision ==
    (pc = "done" /\ call.fn = "intra_pred" /\ call.mode = "DC_PRED"
       /\ DcShape(call.width, call.height))
      => \A n \in {call.width + call.height} :
         \A T \in {CallSum} :
         \A ratio \in {imax(call.width, call.height)
                         \div imin(call.width, call.height)} :
         \A x \in {(T + n \div 2) \div (2^ctz(n))} :
            /\ DOMAIN st = Rect(0, call.stride, call.width, call.height)
            /\ \A p \in DOMAIN st : st[p] = (T + n \div 2) \div n
            /\ (x * ClaimMultiplier(ratio, BITDEPTH)) \div 65536 < 65536
            /\ (x * ClaimMultiplier(ratio, BITDEPTH))
                 \div (2^ClaimShift(ratio, BITDEPTH)) = (T + n \div 2) \div n
            /\ ratio # 1
                 => /\ DcMultiplier(call.width, call.height, BITDEPTH)
                         = ClaimMultiplier(ratio, BITDEPTH)
                    /\ BASE_SHIFT(BITDEPTH) = ClaimShift(ratio, BITDEPTH)

\* a 10 bit 16x64 block whose 80 neighbours sum to 1023 * 80 - 41, one
\* below the rounding boundary of the top level, was filled with 1022
C9_Witness ==
    /\ pc = "done"
    /\ call.fn = "intra_pred"
    /\ call.mode = "DC_PRED"
    /\ BITDEPTH = 10
    /\ call.width = 16
    /\ call.height = 64
    /\ CallSum = 1023 * 80 - 41
    /\ \A p \in Rect(0, call.stride, 16, 64) : mem[p] = 1022

(***************************************************************************)
(* Specification SpecPaeth: c->intra_pred[PAETH_PRED] is called on         *)
(* neighbour vectors that are constant, that are the example corner 10,    *)
(* top 12, left 8, that are irregular, or that hold small values only (so  *)
(* that distances tie).                                                    *)
(***************************************************************************)
PaethPatterns == {<<"flat", 0>>, <<"example", 0>>} \cup {<<"irregular", s>> : s \in Seeds}
                 \cup {<<"small", s>> : s \in Seeds}

PaethNeighbours(pat, width, height, bd) ==
    [i \in -(width + height) .. (width + height) |->
        CASE pat[1] = "flat" -> PixelMax(bd) - 7
          [] pat[1] = "example" -> (IF i = 0 THEN 10 ELSE IF i > 0 THEN 12 ELSE 8)
          [] pat[1] = "irregular" -> Sample(pat[2] + 2, i, bd)
          [] pat[1] = "small" ->
               (Sample(pat[2] + 2, i, bd) \div 5) % (MaxSmall + 1)]

CallPaeth ==
    /\ pc = "ready"
    /\ \E width \in Sizes, height \in Sizes, pat \in PaethPatterns :
         /\ call' = [fn |-> "intra_pred", mode |-> "PAETH_PRED", dst |-> 0,
                     stride |-> width + Pad(width \div 4),
                     topleft |-> PaethNeighbours(pat, width, height, BITDEPTH),
                     width |-> width, height |-> height, angle |-> 0,
                     tseed |-> 0, pat |-> pat]
         /\ mem' = Plane(2, -(width + Pad(width \div 4)),
                         (height + 1) * (width + Pad(width \div 4)) - 1,
                         BITDEPTH)
    /\ pc' = "call"
    /\ UNCHANGED <<c, BITDEPTH, HAVE_ASM, cpu_flags, mem0, st, rd, loc>>

NextPaeth ==
    \/ DspInit
    \/ CallPaeth
    \/ intra_pred

SpecPaeth == Init /\ [][NextPaeth]_vars

\* the smallest of three distances
Min3(a, b, d) == imin(a, imin(b, d))

\* v is the one of left, top, corner closest to base = left + top - corner,
\* ties resolved in the order left, top, corner
IsPaethChoice(v, left, top, corner) ==
    \A base \in {left + top - corner} :
    \A least \in {Min3(abs(left - base), abs(top - base), abs(corner - base))} :
       /\ abs(left - base) = least => v = left
       /\ (abs(left - base) # least /\ abs(top - base) = least) => v = top
       /\ (abs(left - base) # least /\ abs(top - base) # least) => v = corner

PaethDone == pc = "done" /\ call.fn = "intra_pred" /\ call.mode = "PAETH_PRED"

\* C10: every pixel (x, y) ipred_paeth_c writes is the one of
\* left = topleft[-(y+1)], top = topleft[1+x], corner = topleft[0] closest
\* to left + top - corner, ties resolved in the order left, top, corner;
\* equal neighbours v give v everywhere; corner 10, top 12, left 8 gives 10
C10_PaethPicksClosest ==
    PaethDone
      => /\ DOMAIN st = Rect(0, call.stride, call.width, call.height)
         /\ \A y \in 0 .. call.height - 1 : \A x \in 0 .. call.width - 1 :
               IsPaethChoice(st[y * call.stride + x], call.topleft[-(y + 1)],
                             call.topleft[1 + x], call.topleft[0])
         /\ \A v \in 0 .. PixelMax(BITDEPTH) :
               (\A i \in DOMAIN call.topleft : call.topleft[i] = v)
                 => \A p \in DOMAIN st : st[p] = v
         /\ (/\ call.topleft[0] = 10
             /\ \A i \in 1 .. call.width : call.topleft[i] = 12
             /\ \A i \in 1 .. call.height : call.topleft[-i] = 8)
              => \A p \in DOMAIN st : st[p] = 10

\* a block of small-valued neighbours has a pixel where left and corner
\* are different and equally close and left was written, and one where top
\* and corner are different and equally close and top was written
C10_Witness ==
    /\ PaethDone
    /\ \E y \in 0 .. call.height - 1 : \E x \in 0 .. call.width - 1 :
         \A l \in {call.topleft[-(y + 1)]} : \A t \in {call.topleft[1 + x]} :
         \A k \in {call.topleft[0]} :
            /\ l # k
            /\ abs(l - (l + t - k)) = abs(k - (l + t - k))
            /\ abs(l - (l + t - k)) <= abs(t - (l + t - k))
            /\ mem[y * call.stride + x] = l
    /\ \E y \in 0 .. call.height - 1 : \E x \in 0 .. call.width - 1 :
         \A l \in {call.topleft[-(y + 1)]} : \A t \in {call.topleft[1 + x]} :
         \A k \in {call.topleft[0]} :
            /\ t # k
            /\ abs(t - (l + t - k)) = abs(k - (l + t - k))
            /\ abs(l - (l + t - k)) > abs(t - (l + t - k))
            /\ mem[y * call.stride + x] = t

(***************************************************************************)
(* Specification SpecConc: two kernel invocations on 4x4 blocks of the     *)
(* same plane run concurrently, one load or store at a time.  call is the  *)
(* pair of their arguments, loc the pair of their frames (k: loads and     *)
(* stores done; reg: the values loaded last) and mem the shared plane.     *)
(* The second block lies beside the first one in the same rows, or has its *)
(* top left sample on the bottom right sample of the first one.            *)
(***************************************************************************)
ConcKernels == {"DC_PRED", "Z1_PRED", "FILTER_PRED", "cfl_pred_1"}

\* width and height of the two blocks: the smallest block size
ConcSize == CHOOSE n \in Sizes : \A k \in Sizes : n <= k

\* the memory m as seen from the pointer dst
View(m, dst) == [p \in {q - dst : q \in DOMAIN m} |-> m[p + dst]]

\* the stores s of a kernel called with the pointer dst
Unshift(s, dst) == [p \in {q + dst : q \in DOMAIN s} |-> s[p - dst]]

\* the stores of the whole invocation cl run on memory m
KernelStores(cl, m) ==
    IF cl.kind = "cfl_pred_1"
    THEN cfl_pred_1_c(m, cl.dst, cl.stride, cl.ac, cl.alpha,
                      CflPredWidth[c.cfl_pred_1[0]], cl.height, BITDEPTH).st
    ELSE Unshift(RunIntraPred(c.intra_pred[cl.kind], View(m, cl.dst),
                              cl.stride, cl.topleft, cl.width, cl.height,
                              cl.angle, BITDEPTH, cl.tseed).st, cl.dst)

\* the arguments of an invocation of kind on the block at dst
ConcCall(kind, dst, stride, seed, m) ==
    The({[cl EXCEPT !.pure = IF kind \in {"DC_PRED", "Z1_PRED"}
                             THEN KernelStores(cl, m) ELSE <<>>]
         : cl \in {[kind |-> kind, dst |-> dst, stride |-> stride,
                    topleft |-> Neighbours(seed, ConcSize, ConcSize, BITDEPTH),
                    width |-> ConcSize, height |-> ConcSize,
                    angle |-> CASE kind = "Z1_PRED" ->
                                     AngleList[2] + 512 * (seed % 2)
                                [] kind = "FILTER_PRED" -> seed % 5
                                [] OTHER -> 0,
                    tseed |-> TableSeed(seed),
                    ac |-> AcArray(seed + 2, ConcSize * ConcSize),
                    alpha |-> -3,
                    pure |-> <<>>]}})

\* loads and stores an invocation makes: FILTER_PRED loads the context of
\* each 4x2 patch and stores its 8 samples, cfl_pred_1 loads dc and stores
\* each sample, splat_dc stores SplatStep samples at a time, ipred_z1_c
\* stores each sample
NSteps(cl) ==
    CASE cl.kind = "FILTER_PRED" ->
             (cl.width \div 4) * (cl.height \div 2) * 9
      [] cl.kind = "cfl_pred_1" -> 1 + cl.width * cl.height
      [] cl.kind = "DC_PRED" ->
             (cl.width \div SplatStep(cl.width, BITDEPTH)) * cl.height
      [] OTHER -> cl.width * cl.height

\* column and row of the patch step k of FILTER_PRED works on
PatchX(cl, k) == 4 * ((k \div 9) % (cl.width \div 4))
PatchY(cl, k) == 2 * ((k \div 9) \div (cl.width \div 4))

FilterTaps(tseed, filt_idx) ==
    [k \in 0 .. 7 |-> [j \in 0 .. 7 |->
        dav1d_filter_intra_taps(tseed, filt_idx, k, j)]]

\* the values step k (counted from 0) of invocation cl loads from memory m
StepReg(cl, k, m, reg) ==
    CASE cl.kind = "FILTER_PRED" /\ k % 9 = 0 ->
             FilterContext(View(m, cl.dst), cl.topleft, cl.stride,
                           PatchX(cl, k), PatchY(cl, k))
      [] cl.kind = "cfl_pred_1" /\ k = 0 -> <<m[cl.dst]>>
      [] OTHER -> reg

\* the offsets step k of invocation cl stores to
StepOffsets(cl, k) ==
    CASE cl.kind = "FILTER_PRED" ->
             IF k % 9 = 0 THEN {}
             ELSE {cl.dst + (PatchY(cl, k) + ((k % 9) - 1) \div 4) * cl.stride
                     + PatchX(cl, k) + (((k % 9) - 1) % 4)}
      [] cl.kind = "cfl_pred_1" ->
             IF k = 0 THEN {}
             ELSE {cl.dst + ((k - 1) \div cl.width) * cl.stride
                     + ((k - 1) % cl.width)}
      [] cl.kind = "DC_PRED" ->
             UNION {{cl.dst + (k \div (cl.width \div n)) * cl.stride
                       + (k % (cl.width \div n)) * n + j : j \in 0 .. n - 1}
                    : n \in {SplatStep(cl.width, BITDEPTH)}}
      [] OTHER -> {cl.dst + (k \div cl.width) * cl.stride + (k % cl.width)}

\* the stores of step k of invocation cl, whose frame holds reg
StepStores(cl, k, reg) ==
    [o \in StepOffsets(cl, k) |->
        CASE cl.kind = "FILTER_PRED" ->
                 FilterPatch(cl.stride, PatchX(cl, k), PatchY(cl, k),
                             FilterTaps(cl.tseed, cl.angle % 512), reg,
                             BITDEPTH)[o - cl.dst]
          [] cl.kind = "cfl_pred_1" ->
                 CflPixel(reg[1], cl.alpha, cl.ac[k - 1], BITDEPTH)
          [] OTHER -> cl.pure[o]]

\* where the caller puts the second block
SecondDst(layout, stride) ==
    IF layout = "beside" THEN ConcSize
    ELSE (ConcSize - 1) * stride + ConcSize - 1

\* the caller starts two invocations on one plane
CallPair ==
    /\ pc = "ready"
    /\ \E kindA \in ConcKernels, kindB \in ConcKernels, seed \in Seeds,
          layout \in {"beside", "corner"} :
         \E stride \in {2 * ConcSize + Pad(seed)} :
         \E m \in {Plane(seed, -stride, 2 * ConcSize * stride - 1,
                           BITDEPTH)} :
            /\ call' = <<ConcCall(kindA, 0, stride, seed, m),
                         ConcCall(kindB, SecondDst(layout, stride), stride,
                                  TableSeed(seed), m)>>
            /\ mem0' = m
            /\ mem' = m
    /\ loc' = <<[k |-> 0, reg |-> <<>>], [k |-> 0, reg |-> <<>>]>>
    /\ pc' = "run"
    /\ UNCHANGED <<c, BITDEPTH, HAVE_ASM, cpu_flags, st, rd>>

\* invocation i makes its next load or store
ConcStep(i) ==
    /\ pc = "run"
    /\ loc[i].k < NSteps(call[i])
    /\ \E reg \in {StepReg(call[i], loc[i].k, mem, loc[i].reg)} :
         /\ loc' = [loc EXCEPT ![i] = [k |-> loc[i].k + 1, reg |-> reg]]
         /\ mem' = Apply(mem, StepStores(call[i], loc[i].k, reg))
    /\ pc' = IF \A j \in 1 .. 2 : loc'[j].k = NSteps(call[j])
             THEN "done" ELSE "run"
    /\ UNCHANGED <<c, BITDEPTH, HAVE_ASM, cpu_flags, call, mem0, st, rd>>

NextConc ==
    \/ DspInit
    \/ CallPair
    \/ \E i \in 1 .. 2 : ConcStep(i)

SpecConc == Init /\ [][NextConc]_vars

\* the destination block of invocation i
ConcRect(i) == Rect(call[i].dst, call[i].stride, call[i].width, call[i].height)

ConcDisjoint == ConcRect(1) \cap ConcRect(2) = {}

\* the plane after invocation i and then invocation j ran, each as a whole
OneAfterTheOther(i, j) ==
    \A m1 \in {Apply(mem0, KernelStores(call[i], mem0))} :
       mem = Apply(m1, KernelStores(call[j], m1))

\* a kernel step leaves the dispatch record, the arguments and neighbour
\* vectors of both invocations and the frame of the other invocation alone
ConcFrame ==
    \A i \in 1 .. 2 :
       ConcStep(i) => /\ UNCHANGED <<c, call, BITDEPTH, HAVE_ASM, cpu_flags>>
                      /\ loc'[3 - i] = loc[3 - i]

\* C6: once the dispatch record is initialized, every interleaving of the
\* loads and stores of two invocations with disjoint destinations leaves
\* the plane as running the two one after the other (in either order)
\* leaves it, touches no sample outside the two destinations, and no kernel
\* step writes the dispatch record or the other invocation's state
C6_InterleavingsAgree ==
    /\ []((pc = "done" /\ ConcDisjoint)
            => OneAfterTheOther(1, 2) /\ OneAfterTheOther(2, 1))
    /\ [](pc \in {"run", "done"}
            => /\ c = dav1d_intra_pred_dsp_init(ZeroRecord, HAVE_ASM, cpu_flags)
               /\ \A R \in {ConcRect(1) \cup ConcRect(2)} :
                     \A p \in DOMAIN mem \ R : mem[p] = mem0[p])
    /\ [][ConcFrame]_vars

\* FILTER_PRED beside cfl_pred_1 both finished, the plane is what one after
\* the other leaves, and both blocks differ from the initial plane
C6_Witness ==
    /\ pc = "done"
    /\ ConcDisjoint
    /\ call[1].kind = "FILTER_PRED"
    /\ call[2].kind = "cfl_pred_1"
    /\ OneAfterTheOther(1, 2)
    /\ \E p \in ConcRect(1) : mem[p] # mem0[p]
    /\ \E p \in ConcRect(2) : mem[p] # mem0[p]

(***************************************************************************)
(* Specification SpecReads: the DC, PAETH and SMOOTH entries of the        *)
(* dispatch record are called on neighbour vectors that extend beyond      *)
(* topleft[-height] and topleft[+width] on both sides.                     *)
(***************************************************************************)
NonDirModes ==
    {"DC_PRED", "TOP_DC_PRED", "LEFT_DC_PRED", "DC_128_PRED", "PAETH_PRED",
     "SMOOTH_PRED", "SMOOTH_V_PRED", "SMOOTH_H_PRED"}

\* the indices at which the kernel named fn subscripts topleft
NeighbourLoads(fn, width, height) ==
    CASE fn = "ipred_dc_top_c" -> {1 + i : i \in 0 .. width - 1}
      [] fn = "ipred_dc_left_c" -> {-(1 + i) : i \in 0 .. height - 1}
      [] fn = "ipred_dc_c" -> {i + 1 : i \in 0 .. width - 1}
                              \cup {-(i + 1) : i \in 0 .. height - 1}
      [] fn = "ipred_dc_128_c" -> {}
      [] fn = "ipred_paeth_c" -> {0} \cup {-(y + 1) : y \in 0 .. height - 1}
                                 \cup {1 + x : x \in 0 .. width - 1}
      [] fn = "ipred_smooth_c" -> {width, -height}
                                  \cup {1 + x : x \in 0 .. width - 1}
                                  \cup {-(1 + y) : y \in 0 .. height - 1}
      [] fn = "ipred_smooth_v_c" -> {-height}
                                    \cup {1 + x : x \in 0 .. width - 1}
      [] fn = "ipred_smooth_h_c" -> {width}
                                    \cup {-(y + 1) : y \in 0 .. height - 1}

CallNonDir ==
    /\ pc = "ready"
    /\ \E mode \in NonDirModes, seed \in Seeds, width \in Sizes,
          height \in Sizes :
         /\ call' = [fn |-> "intra_pred", mode |-> mode, dst |-> 0,
                     stride |-> width + Pad(seed),
                     topleft |-> Neighbours(seed + 2, width, height, BITDEPTH),
                     width |-> width, height |-> height, angle |-> 0,
                     tseed |-> TableSeed(seed)]
         /\ mem' = Plane(seed, -(width + Pad(seed)),
                         (height + 1) * (width + Pad(seed)) - 1, BITDEPTH)
    /\ pc' = "call"
    /\ UNCHANGED <<c, BITDEPTH, HAVE_ASM, cpu_flags, mem0, st, rd, loc>>

NextReads ==
    \/ DspInit
    \/ CallNonDir
    \/ intra_pred

SpecReads == Init /\ [][NextReads]_vars

\* the vector v with every entry outside keep replaced by another sample
Overwritten(v, keep, bd) ==
    [i \in DOMAIN v |-> IF i \in keep THEN v[i] ELSE PixelMax(bd) - v[i]]

\* the stores of the call's kernel when it is handed the vector v
StoresOn(v) ==
    RunIntraPred(c.intra_pred[call.mode], mem0, call.stride, v, call.width,
                 call.height, call.angle, BITDEPTH, call.tseed).st

NonDirDone ==
    pc = "done" /\ call.fn = "intra_pred" /\ call.mode \in NonDirModes

\* C11: the DC, TOP_DC, LEFT_DC, DC_128, PAETH, SMOOTH, SMOOTH_V and
\* SMOOTH_H kernels read the neighbour vector only at indices i with
\* -height <= i <= width: every index they subscript topleft with lies in
\* that range, and what they store does not change when every entry they do
\* not subscript, or every entry outside that range, is replaced
C11_NeighbourReadsInRange ==
    NonDirDone
      => \A L \in {NeighbourLoads(c.intra_pred[call.mode], call.width,
                                  call.height)} :
            /\ \A i \in L : -call.height <= i /\ i <= call.width
            /\ StoresOn(Overwritten(call.topleft, L, BITDEPTH)) = st
            /\ StoresOn(Overwritten(call.topleft,
                                    -call.height .. call.width, BITDEPTH)) = st

\* SMOOTH_PRED ran on an 8x16 block of irregular neighbours: it subscripts
\* topleft[-16] and topleft[8], and what it stored changes when the entry
\* topleft[8] alone is replaced
C11_Witness ==
    /\ NonDirDone
    /\ call.mode = "SMOOTH_PRED"
    /\ call.width = 8
    /\ call.height = 16
    /\ {-16, 8} \subseteq NeighbourLoads(c.intra_pred[call.mode], 8, 16)
    /\ StoresOn(Overwritten(call.topleft, DOMAIN call.topleft \ {8},
                            BITDEPTH)) # st

(***************************************************************************)
(* Specification SpecFilter: c->intra_pred[FILTER_PRED] runs one 4x2 patch *)
(* at a time.  loc keeps the loop variables x and y, the number n of       *)
(* patches done, and for the patch done last its position (at), the        *)
(* pointers its context was loaded through (ptrs), the context (p) and the *)
(* destination offsets stored to before it (before); last holds, for each  *)
(* destination offset stored to so far, the value of the last store.       *)
(***************************************************************************)
CallFilter ==
    /\ pc = "ready"
    /\ \E seed \in Seeds, width \in SizesOf("FILTER_PRED"),
          height \in SizesOf("FILTER_PRED"),
          a \in AngleArgs("FILTER_PRED", 0) :
         /\ call' = [fn |-> "intra_pred", mode |-> "FILTER_PRED", dst |-> 0,
                     stride |-> width + Pad(seed),
                     topleft |-> Neighbours(seed + 2, width, height, BITDEPTH),
                     width |-> width, height |-> height,
                     angle |-> a, tseed |-> TableSeed(seed)]
         /\ mem' = Plane(seed, -(width + Pad(seed)),
                         (height + 1) * (width + Pad(seed)) - 1, BITDEPTH)
         /\ mem0' = mem'
    /\ loc' = [x |-> 0, y |-> 0, n |-> 0, at |-> <<>>, ptrs |-> <<>>,
               p |-> <<>>, before |-> {}, last |-> <<>>]
    /\ st' = <<>>
    /\ rd' = {}
    /\ pc' = "call"
    /\ UNCHANGED <<c, BITDEPTH, HAVE_ASM, cpu_flags>>

\* one iteration of the loop over x: the context of the patch at
\* (loc.x, loc.y) is loaded, its eight samples are stored, and x (at the end
\* of a band, y) moves on
FilterPatchStep ==
    /\ pc = "call"
    /\ call.fn = "intra_pred"
    /\ call.mode = "FILTER_PRED"
    /\ c.intra_pred[call.mode] = "ipred_filter_c"
    /\ loc.y < call.height
    /\ \E ptrs \in {FilterPtrs(call.stride, loc.x, loc.y)} :
       \E p \in {[j \in 1 .. 7 |-> Deref(mem, call.topleft, ptrs[j])]} :
       \E s \in {FilterPatch(call.stride, loc.x, loc.y,
                             [k \in 0 .. 7 |-> [j \in 0 .. 7 |->
                                dav1d_filter_intra_taps(call.tseed,
                                    call.angle % 512, k, j)]],
                             p, BITDEPTH)} :
          /\ mem' = Apply(mem, s)
          /\ rd' = rd \cup {ptrs[j].at : j \in {i \in 1 .. 7 :
                                                  ptrs[i].buf = "dst"}}
          /\ loc' = [x |-> IF loc.x + 4 < call.width THEN loc.x + 4 ELSE 0,
                     y |-> IF loc.x + 4 < call.width THEN loc.y ELSE loc.y + 2,
                     n |-> loc.n + 1, at |-> <<loc.x, loc.y>>,
                     ptrs |-> ptrs, p |-> p,
                     before |-> DOMAIN loc.last, last |-> s @@ loc.last]
          /\ st' = s @@ st
          /\ pc' = IF loc.x + 4 >= call.width /\ loc.y + 2 >= call.height
                   THEN "done" ELSE "call"
    /\ UNCHANGED <<c, BITDEPTH, HAVE_ASM, cpu_flags, call, mem0>>

NextFilter ==
    \/ DspInit
    \/ CallFilter
    \/ FilterPatchStep

SpecFilter == Init /\ [][NextFilter]_vars

\* the position (row, column) of context sample j of the patch at (x, y)
ContextPos(j, x, y) ==
    CASE j = 1 -> <<y - 1, x - 1>>
      [] j \in 2 .. 5 -> <<y - 1, x + (j - 2)>>
      [] j = 6 -> <<y, x - 1>>
      [] j = 7 -> <<y + 1, x - 1>>

\* where the sample at a position is read: positions of row -1 and column
\* -1 in the neighbour vector, every other position in the destination
ContextSource(pos, stride) ==
    IF pos[2] = -1 THEN [buf |-> "topleft_in", at |-> -(pos[1] + 1)]
    ELSE IF pos[1] = -1 THEN [buf |-> "topleft_in", at |-> 1 + pos[2]]
    ELSE [buf |-> "dst", at |-> pos[1] * stride + pos[2]]

FilterStepped ==
    /\ pc \in {"call", "done"}
    /\ call.fn = "intra_pred"
    /\ call.mode = "FILTER_PRED"
    /\ loc.n > 0

\* C12: ipred_filter_c processes the 4x2 patches in raster order; the
\* context of the patch at (x, y) is p0 = (row y-1, column x-1), p1..p4 =
\* (row y-1, columns x..x+3), p5, p6 = (rows y, y+1, column x-1), with row
\* -1 and column -1 read from the neighbour vector and every other position
\* from the destination; every destination position read was stored to
\* earlier in the invocation and the value read is the value stored last
C12_FilterContext ==
    FilterStepped
      => /\ loc.at = <<4 * ((loc.n - 1) % (call.width \div 4)),
                       2 * ((loc.n - 1) \div (call.width \div 4))>>
         /\ \A j \in 1 .. 7 :
               /\ loc.ptrs[j]
                    = ContextSource(ContextPos(j, loc.at[1], loc.at[2]),
                                    call.stride)
               /\ loc.ptrs[j].buf = "dst"
                    => /\ loc.ptrs[j].at \in loc.before
                       /\ loc.p[j] = loc.last[loc.ptrs[j].at]
               /\ loc.ptrs[j].buf = "topleft_in"
                    => loc.p[j] = call.topleft[loc.ptrs[j].at]

\* the last patch of a 16x8 block was done: its whole context was read
\* from the destination, and the plane is the one the kernel run as a whole
\* leaves
C12_Witness ==
    /\ pc = "done"
    /\ FilterStepped
    /\ call.width = 16
    /\ call.height = 8
    /\ loc.at = <<12, 6>>
    /\ \A j \in 1 .. 7 : loc.ptrs[j].buf = "dst"
    /\ mem = Apply(mem0, ipred_filter_c(mem0, call.stride, call.topleft,
                                        call.width, call.height, call.angle,
                                        BITDEPTH, call.tseed).st)

(***************************************************************************)
(* Specification SpecZ1: ipred_z1_c on every block shape, every angle of   *)
(* the directional modes below 90 and both is_sm flags.  What the step of  *)
(* an angle is lies with dav1d_dr_intra_derivative, a table outside this   *)
(* file: the step dx is an input here, the table's entry for every angle   *)
(* and other positive steps for some.                                      *)
(***************************************************************************)
pixel_top_out == (64 + 64) * 2

Z1Angles == {a \in DrAngles : 0 < a /\ a < 90}

\* positive steps: the table's, the least, and others
Z1Step(a, seed) ==
    CASE seed = 0 -> dav1d_dr_intra_derivative[a]
      [] seed = 1 -> 1
      [] OTHER -> ((dav1d_dr_intra_derivative[a] * (seed * 37 + 5)) % 1024) + 1

\* the pairs of an angle and a data pattern the calls are drawn from
Z1Inputs ==
    {<<a, 0>> : a \in Z1Angles}
    \cup {<<a, seed>> : a \in Angles \cap Z1Angles, seed \in Seeds \ {0}}

CallZ1 ==
    /\ pc = "ready"
    /\ \E in \in Z1Inputs, width \in Sizes, height \in Sizes, is_sm \in 0 .. 1 :
       \E a \in {in[1]}, seed \in {in[2]} :
         /\ call' = [fn |-> "intra_pred", mode |-> "Z1_PRED", dst |-> 0,
                     stride |-> width + Pad(seed),
                     topleft |-> Neighbours(seed + 2, width, height, BITDEPTH),
                     width |-> width, height |-> height,
                     angle |-> a + 512 * is_sm, dx |-> Z1Step(a, seed),
                     tseed |-> TableSeed(seed)]
         /\ mem' = Plane(seed, -(width + Pad(seed)),
                         (height + 1) * (width + Pad(seed)) - 1, BITDEPTH)
    /\ pc' = "call"
    /\ UNCHANGED <<c, BITDEPTH, HAVE_ASM, cpu_flags, mem0, st, rd, loc>>

\* c->intra_pred[Z1_PRED] runs, with call.dx for dav1d_dr_intra_derivative[angle]
ipred_z1 ==
    /\ pc = "call"
    /\ call.fn = "intra_pred"
    /\ call.mode = "Z1_PRED"
    /\ c.intra_pred[call.mode] = "ipred_z1_c"
    /\ \E L \in {[Z1Edge(call.topleft, call.width, call.height, call.angle,
                         BITDEPTH) EXCEPT !.dx = call.dx]} :
       \E r \in {Z1Loop(call.stride, call.width, call.height, L, BITDEPTH)} :
       \E ndebug \in BOOLEAN : Return(r, ndebug)
    /\ UNCHANGED <<c, BITDEPTH, HAVE_ASM, cpu_flags, call>>

NextZ1 ==
    \/ DspInit
    \/ CallZ1
    \/ ipred_z1

SpecZ1 == Init /\ [][NextZ1]_vars

\* the subscripts of top the pixel loop reads: top[base] and top[base + 1]
\* in the columns before the break, top[max_base_x] at the break
Z1TopReads(L, width, height) ==
    UNION {UNION {{Z1Base(L, x, y), Z1Base(L, x, y) + 1}
                  : x \in 0 .. Z1Break(L, width, y) - 1}
           \cup (IF Z1Break(L, width, y) < width THEN {L.max_base} ELSE {})
           : y \in 0 .. height - 1}

\* the subscripts of topleft_in that upsample_edge and filter_edge read,
\* called with in = &topleft_in[1], from = -1, to = width + imin(width, height)
Z1EdgeReads(L, width, height) ==
    IF L.upsample # 0
    THEN {1 + iclip(i, -1, width + imin(width, height) - 1)
          : i \in 0 .. width + height - 1}
         \cup {1 + iclip(i + j - 1, -1, width + imin(width, height) - 1)
               : i \in 0 .. width + height - 2, j \in 0 .. 3}
    ELSE IF L.filter_strength # 0
    THEN {1 + iclip(i - 2 + j, -1, width + imin(width, height) - 1)
          : i \in 0 .. width + height - 1, j \in 0 .. 4}
    ELSE {}

\* the first column of row y whose base is at least max_base_x (width when
\* there is none)
Z1FirstFill(L, width, y) ==
    The({IF S = {} THEN width ELSE CHOOSE x \in S : \A z \in S : x <= z
         : S \in {{x \in 0 .. width - 1 : Z1Base(L, x, y) >= L.max_base}}})

Z1Done ==
    /\ pc = "done"
    /\ call.fn = "intra_pred"
    /\ call.mode = "Z1_PRED"

\* C13: in ipred_z1_c, max_base_x is 2*(w+h)-2 when upsampled, w+h-1 when
\* filtered and w+min(w,h)-1 otherwise; every index read on the effective
\* top edge is in 0 .. max_base_x and addresses an initialised sample (an
\* entry of the 256-entry scratch array written by upsample_edge or
\* filter_edge, or topleft[1 .. w+min(w,h)]); the edge preparation reads
\* the caller's vector at topleft[0 .. w+min(w,h)] only; and in each row
\* every pixel from the first column with base >= max_base_x on equals
\* top[max_base_x]
C13_Z1EdgeIndices ==
    Z1Done
      => \A L \in {loc} : \A m \in {call.width + imin(call.width, call.height)} :
            /\ L.dx = call.dx
            /\ L.max_base = IF L.upsample # 0
                            THEN 2 * (call.width + call.height) - 2
                            ELSE IF L.filter_strength # 0
                            THEN call.width + call.height - 1
                            ELSE m - 1
            /\ \A i \in Z1TopReads(L, call.width, call.height) :
                  /\ 0 <= i
                  /\ i <= L.max_base
                  /\ IF L.upsample # 0 \/ L.filter_strength # 0
                     THEN i \in DOMAIN L.top /\ i < pixel_top_out
                     ELSE 1 <= 1 + i /\ 1 + i <= m
            /\ \A i \in Z1EdgeReads(L, call.width, call.height) :
                  0 <= i /\ i <= m
            /\ \A P \in {Z1Edge(Overwritten(call.topleft, 0 .. m, BITDEPTH),
                                call.width, call.height, call.angle,
                                BITDEPTH)} :
                  \A i \in 0 .. L.max_base : P.top[i] = L.top[i]
            /\ \A y \in 0 .. call.height - 1 :
                  \A x \in Z1FirstFill(L, call.width, y) .. call.width - 1 :
                     st[y * call.stride + x] = L.top[L.max_base]

\* an upsampled edge whose last entry fills the end of a row that starts
\* with interpolated pixels
C13_Witness ==
    /\ Z1Done
    /\ loc.upsample = 1
    /\ loc.max_base = 2 * (call.width + call.height) - 2
    /\ \E y \in 0 .. call.height - 1 :
          /\ 0 < Z1Break(loc, call.width, y)
          /\ Z1Break(loc, call.width, y) < call.width
    /\ loc.max_base \in Z1TopReads(loc, call.width, call.height)
    /\ 0 \in Z1EdgeReads(loc, call.width, call.height)

(***************************************************************************)
(* Specification SpecZ3: ipred_z3_c on every block shape, the angles of    *)
(* the directional modes above 180 and both is_sm flags; as in SpecZ1 the  *)
(* step of the angle is an input.                                          *)
(***************************************************************************)
CallZ3 ==
    /\ pc = "ready"
    /\ \E in \in Z1Inputs, width \in Sizes, height \in Sizes, is_sm \in 0 .. 1 :
       \E a \in {in[1]}, seed \in {in[2]} :
         /\ call' = [fn |-> "intra_pred", mode |-> "Z3_PRED", dst |-> 0,
                     stride |-> width + Pad(seed),
                     topleft |-> Neighbours(seed + 2, width, height, BITDEPTH),
                     width |-> width, height |-> height,
                     angle |-> (270 - a) + 512 * is_sm, dx |-> Z1Step(a, seed),
                     tseed |-> TableSeed(seed)]
         /\ mem' = Plane(seed, -(width + Pad(seed)),
                         (height + 1) * (width + Pad(seed)) - 1, BITDEPTH)
    /\ pc' = "call"
    /\ UNCHANGED <<c, BITDEPTH, HAVE_ASM, cpu_flags, mem0, st, rd, loc>>

\* c->intra_pred[Z3_PRED] runs, with call.dx for
\* dav1d_dr_intra_derivative[270 - angle]
ipred_z3 ==
    /\ pc = "call"
    /\ call.fn = "intra_pred"
    /\ call.mode = "Z3_PRED"
    /\ c.intra_pred[call.mode] = "ipred_z3_c"
    /\ \E L \in {[Z3Edge(call.topleft, call.width, call.height, call.angle,
                         BITDEPTH) EXCEPT !.dy = call.dx]} :
       \E r \in {Z3Loop(call.stride, call.width, call.height, L, BITDEPTH)} :
       \E ndebug \in BOOLEAN : Return(r, ndebug)
    /\ UNCHANGED <<c, BITDEPTH, HAVE_ASM, cpu_flags, call>>

NextZ3 ==
    \/ DspInit
    \/ CallZ3
    \/ ipred_z3

SpecZ3 == Init /\ [][NextZ3]_vars

\* the neighbour vector mirrored about the corner
Mirror(N) == [k \in {-i : i \in DOMAIN N} |-> N[-k]]

\* what ipred_z1_c stores for the transposed block: height x width, angle
\* 270 - angle, the same is_sm flag and step, the mirrored vector, rows of
\* height samples
Z1OfTranspose ==
    The({Z1Loop(call.height, call.height, call.width, L, BITDEPTH).st
         : L \in {[Z1Edge(Mirror(call.topleft), call.height, call.width,
                          (270 - (call.angle % 512))
                            + 512 * Shr(call.angle, 9), BITDEPTH)
                     EXCEPT !.dx = call.dx]}})

Z3Done ==
    /\ pc = "done"
    /\ call.fn = "intra_pred"
    /\ call.mode = "Z3_PRED"

\* C14: the sample ipred_z3_c writes at (x, y) of a w x h block is the
\* sample ipred_z1_c writes at (y, x) of the h x w block with angle 270 - t,
\* the same is_sm flag and the mirrored neighbour vector N'[k] = N[-k], in
\* the upsampled, the filtered and the unprocessed case, the fill past
\* max_base_y included
C14_Z3IsTransposedZ1 ==
    Z3Done
      => \A T \in {Z1OfTranspose} :
            /\ DOMAIN T = Rect(0, call.height, call.height, call.width)
            /\ DOMAIN st = Rect(0, call.stride, call.width, call.height)
            /\ \A x \in 0 .. call.width - 1, y \in 0 .. call.height - 1 :
                  st[y * call.stride + x] = T[x * call.height + y]

\* an upsampled left edge of a block that is not square, with a column
\* that is interpolated above and filled below
C14_Witness ==
    /\ Z3Done
    /\ call.width # call.height
    /\ loc.upsample = 1
    /\ \E x \in 0 .. call.width - 1 :
          /\ 0 < Z3Break(loc, call.height, x)
          /\ Z3Break(loc, call.height, x) < call.height
          /\ st[x] # st[(call.height - 1) * call.stride + x]

(***************************************************************************)
(* Specification SpecZ2: ipred_z2_c runs row by row, with the loop         *)
(* variables updated as the code updates them.  loc holds the prepared     *)
(* edge (L), the row counter y, xpos, and for the row done last one record *)
(* per pixel (row): base_x, frac_x and ypos as the loop had them, the      *)
(* branch taken (top), the subscripts of topleft read (i0, i1), base_y     *)
(* and frac_y on the left branch, v and the sample stored (px).  The data   *)
(* pattern of a call goes with its angle and is_sm flag.                   *)
(***************************************************************************)
CallZ2 ==
    /\ pc = "ready"
    /\ \E width \in Sizes, height \in Sizes, a \in AngleArgs("Z2_PRED", 0),
          is_sm \in 0 .. 1 :
       \E seed \in {((a \div 3) + is_sm) % (MaxSeed + 1)} :
         /\ call' = [fn |-> "intra_pred", mode |-> "Z2_PRED", dst |-> 0,
                     stride |-> width + Pad(seed),
                     topleft |-> Neighbours(seed + 2, width, height, BITDEPTH),
                     width |-> width, height |-> height,
                     angle |-> a + 512 * is_sm, tseed |-> TableSeed(seed)]
         /\ mem' = Plane(seed, -(width + Pad(seed)),
                         (height + 1) * (width + Pad(seed)) - 1, BITDEPTH)
         /\ mem0' = mem'
    /\ st' = <<>>
    /\ rd' = {}
    /\ loc' = <<>>
    /\ pc' = "call"
    /\ UNCHANGED <<c, BITDEPTH, HAVE_ASM, cpu_flags>>

\* the part of ipred_z2_c before the pixel loop, and the loop's
\* initialisation: y = 0, xpos = -dx
Z2Enter ==
    /\ pc = "call"
    /\ call.fn = "intra_pred"
    /\ call.mode = "Z2_PRED"
    /\ c.intra_pred[call.mode] = "ipred_z2_c"
    /\ \E L \in {Z2Edge(call.topleft, call.width, call.height, call.angle,
                        BITDEPTH)} :
       \E ndebug \in BOOLEAN :
          IF (L.angle > 90 /\ L.angle < 180) \/ ndebug
          THEN /\ loc' = [L |-> L, y |-> 0, xpos |-> -L.dx, row |-> <<>>]
               /\ pc' = "loop"
          ELSE /\ pc' = "abort"
               /\ UNCHANGED loc
    /\ UNCHANGED <<c, BITDEPTH, HAVE_ASM, cpu_flags, call, mem0, mem, st, rd>>

\* base_x += base_inc_x
Z2NextBaseX_One(L, base_x) == base_x + 1

Z2NextBaseX(L, base_x) == base_x + 2^L.upsample_above

\* the body of the loop over x for one pixel: the branch on base_x, the
\* two samples read through top or left, v and the sample stored
Z2Body(L, base_x, frac_x, ypos, bd) ==
    LET base_y == Shr(ypos, 6 - L.upsample_left)
        frac_y == Shr((ypos * (2^L.upsample_left)) % 64, 1)
        top == base_x >= -(2^L.upsample_above)
        i0 == IF top THEN 2^L.upsample_above + base_x
                     ELSE -(2^L.upsample_left) - base_y
        i1 == IF top THEN 2^L.upsample_above + (base_x + 1)
                     ELSE -(2^L.upsample_left) - (base_y + 1)
        frac == IF top THEN frac_x ELSE frac_y
        v == L.edge[i0] * (32 - frac) + L.edge[i1] * frac
    IN [base_x |-> base_x, frac_x |-> frac_x, ypos |-> ypos, top |-> top,
        ok |-> top \/ base_y >= -(2^L.upsample_left),
        base_y |-> base_y, frac_y |-> frac_y, i0 |-> i0, i1 |-> i1,
        v |-> v, px |-> iclip_pixel(Shr(v + 16, 5), bd)]

\* the loop over x from column x on: one record per pixel, with base_x and
\* ypos carried from one iteration to the next
RECURSIVE Z2Columns(_, _, _, _, _, _, _)
Z2Columns(L, width, x, base_x, frac_x, ypos, bd) ==
    IF x >= width THEN <<>>
    ELSE <<Z2Body(L, base_x, frac_x, ypos, bd)>>
         \o Z2Columns(L, width, x + 1, Z2NextBaseX(L, base_x), frac_x,
                      ypos - L.dy, bd)

\* one iteration of the loop over y: base_x = xpos >> frac_bits_x, frac_x,
\* ypos = (y << 6) - dy, the loop over x, then y++, xpos -= dx
Z2Row ==
    /\ pc = "loop"
    /\ call.fn = "intra_pred"
    /\ call.mode = "Z2_PRED"
    /\ loc.y < call.height
    /\ \E row \in {Z2Columns(loc.L, call.width, 0,
                             Shr(loc.xpos, 6 - loc.L.upsample_above),
                             Shr((loc.xpos * (2^loc.L.upsample_above)) % 64, 1),
                             Shl(loc.y, 6) - loc.L.dy, BITDEPTH)} :
       \E ndebug \in BOOLEAN :
          IF (\A x \in 1 .. call.width : row[x].ok) \/ ndebug
          THEN /\ \E s \in {[p \in {loc.y * call.stride + x
                                     : x \in 0 .. call.width - 1} |->
                                row[(p % call.stride) + 1].px]} :
                     /\ st' = s @@ st
                     /\ mem' = Apply(mem, s)
               /\ loc' = [loc EXCEPT !.y = loc.y + 1,
                                     !.xpos = loc.xpos - loc.L.dx,
                                     !.row = row]
               /\ pc' = IF loc.y + 1 < call.height THEN "loop" ELSE "done"
          ELSE /\ pc' = "abort"
               /\ UNCHANGED <<mem, st, loc>>
    /\ UNCHANGED <<c, BITDEPTH, HAVE_ASM, cpu_flags, call, mem0, rd>>

NextZ2 ==
    \/ DspInit
    \/ CallZ2
    \/ Z2Enter
    \/ Z2Row

SpecZ2 == Init /\ [][NextZ2]_vars

\* a row of a Z2 call was done
Z2RowDone ==
    /\ pc \in {"loop", "done"}
    /\ call.fn = "intra_pred"
    /\ call.mode = "Z2_PRED"
    /\ loc.y > 0

\* the entries of the joint edge written for the top edge and the corner
\* before the pixel loop
Z2TopWritten ==
    {0} \cup DOMAIN Z2Above(call.topleft, call.width, call.height,
                            call.angle % 512, Shr(call.angle, 9), BITDEPTH)

\* C15: in ipred_z2_c, at every pixel (x, y) the loop's base_x, frac_x and
\* ypos are (64x - (y+1)dx) >> (6 - upsample_above),
\* (((64x - (y+1)dx) << upsample_above) & 0x3F) >> 1 and 64y - (x+1)dy; the
\* pixel is interpolated from the top edge exactly when
\* base_x >= -(1 << upsample_above), else from the left edge with
\* base_y = ypos >> (6 - upsample_left); dst = clip((v + 16) >> 5); and
\* every top-edge read is within topleft[0 .. width << upsample_above],
\* written before the pixel loop
C15_Z2ClosedForms ==
    Z2RowDone
      => \A L \in {loc.L} : \A y \in {loc.y - 1} : \A W \in {Z2TopWritten} :
         \A x \in 0 .. call.width - 1 :
         \A r \in {loc.row[x + 1]} :
         \A xp \in {64 * x - (y + 1) * L.dx} :
            /\ r.base_x = Shr(xp, 6 - L.upsample_above)
            /\ r.frac_x = Shr(Shl(xp, L.upsample_above) % 64, 1)
            /\ r.ypos = 64 * y - (x + 1) * L.dy
            /\ r.top <=> Shr(xp, 6 - L.upsample_above) >= -(2^L.upsample_above)
            /\ ~r.top => r.base_y = Shr(64 * y - (x + 1) * L.dy,
                                        6 - L.upsample_left)
            /\ ~r.top => {r.i0, r.i1} \subseteq -(2 * call.height) .. 0
            /\ r.v = L.edge[r.i0] * (32 - (IF r.top THEN r.frac_x
                                                    ELSE r.frac_y))
                     + L.edge[r.i1] * (IF r.top THEN r.frac_x ELSE r.frac_y)
            /\ st[y * call.stride + x] = iclip_pixel(Shr(r.v + 16, 5), BITDEPTH)
            /\ mem[y * call.stride + x] = st[y * call.stride + x]
            /\ r.top => /\ 0 <= r.i0
                        /\ r.i1 <= Shl(call.width, L.upsample_above)
                        /\ {r.i0, r.i1} \subseteq W

\* the last row of a block that is not square held pixels of both
\* branches, each with a fraction that is not zero, and the plane is the
\* one the kernel run as a whole leaves
C15_Witness ==
    /\ pc = "done"
    /\ Z2RowDone
    /\ call.width # call.height
    /\ \E x1, x2 \in 1 .. call.width :
          /\ loc.row[x1].top
          /\ loc.row[x1].frac_x # 0
          /\ ~loc.row[x2].top
          /\ loc.row[x2].frac_y # 0
          /\ loc.row[x2].px # loc.row[x1].px
    /\ mem = Apply(mem0, ipred_z2_c(call.stride, call.topleft, call.width,
                                    call.height, call.angle, BITDEPTH).st)
=============================================================================
